---- MODULE Spec2Model ----
(***************************************************************************)
(* Variable resolution of terragrunt configuration files.                  *)
(*                                                                         *)
(*  - the Convergence Evaluator: evaluateGlobalsBlock and                  *)
(*    attemptEvaluateGlobals (globals.go), a sweep loop over one file's    *)
(*    globals block;                                                       *)
(*  - the Graph Evaluator: ParseConfigVariables and configEvaluator        *)
(*    (evaluator code kept in config/globals_test.go), a dependency graph  *)
(*    over a child file and its optional parent, walked breadth first in   *)
(*    two passes;                                                          *)
(*  - ConfigParser.Process (config/config_parser.go and its later          *)
(*    revision): the chain of included files and the order of the calls    *)
(*    made on each file's evaluator.                                       *)
(*                                                                         *)
(* An expression is abstracted to the set of variables it reads, a kind    *)
(* ("ok", "error" for an expression whose evaluation returns error         *)
(* diagnostics whatever the context, or "panic" for one whose evaluation   *)
(* panics with the value k) and a constant k: its value is k plus the sum  *)
(* of the values it reads.  k is different for every attribute of the      *)
(* chain, so k also stands for the identity of the hcl.Expression pointer. *)
(***************************************************************************)
EXTENDS Integers, Sequences, FiniteSets, TLC

VARIABLES
    files,             \* the chain: files[1] the child, files[2] its parent (if any)
    globalsFilename,   \* evaluateGlobalsBlock's filename argument
    pc,                \* position in evaluateGlobalsBlock / ParseConfigVariables
    ret,               \* what the running function has returned
    \* evaluateGlobalsBlock's locals
    globals,           \* []*Global still to evaluate, in slice order
    evaluatedGlobals,  \* map[string]cty.Value
    evaluated,         \* did the last sweep evaluate anything
    iterations,        \* the loop counter
    \* ParseConfigVariables' state (evaluatorGlobals and the configEvaluators)
    graph,             \* dag.AcyclicGraph: [vertices, edges]
    vertices,          \* evaluatorGlobals.vertices: map[string]variableVertex
    values,            \* evaluatorGlobals.values: map[string]cty.Value
    localVertices,     \* per configEvaluator: map[string]variableVertex
    localValues,       \* per configEvaluator: map[string]cty.Value
    evaluateGlobals,   \* the flag of the pass being walked
    queue,             \* walkBreadthFirst's queue
    visited,           \* walkBreadthFirst's visited set
    diags,             \* evaluateVariables' diagnostics
    calls,             \* history: how often Expr.Value was called, per expression
    \* ConfigParser.Process
    version,           \* which of the two ConfigParser sources is built
    disk,              \* the files read so far: filename -> content
    parsers,           \* the ConfigParsers: parsers[1] the leaf, parsers[l + 1] the Parent of parsers[l]
    level,             \* the ConfigParser whose method is running
    log                \* history: the calls made on cp.Eval and by Finalize, in order

vars == <<files, globalsFilename, pc, ret, globals, evaluatedGlobals, evaluated, iterations,
          graph, vertices, values, localVertices, localValues,
          evaluateGlobals, queue, visited, diags, calls,
          version, disk, parsers, level, log>>

sweepVars == <<globals, evaluatedGlobals, evaluated, iterations>>
graphVars == <<graph, vertices, values, localVertices, localValues,
               evaluateGlobals, queue, visited, diags, calls>>
parserVars == <<version, disk, parsers, level, log>>

----------------------------------------------------------------------------
(* Bounds and program constants *)

\* An expression of the input reads at most MaxRefs variables.
MaxRefs == 2

\* The sweep ceiling of evaluateGlobalsBlock.
MaxIter == 1000

----------------------------------------------------------------------------
(* Names, references, expressions *)

local == "local"
global == "global"
include == "include"

GlobalNames == {"a", "b", "c"}
LocalNames == {"x"}

NameIndex(n) ==
    CASE n = "a" -> 0
      [] n = "b" -> 1
      [] n = "c" -> 2
      [] n = "x" -> 3

\* The constant of the attribute named n of file f (1: child, 2: parent).
K(f, n) == 2 ^ (NameIndex(n) + 4 * (f - 1))

\* A reference is a pair <<root name, attribute name>>, as
\* getVariableRootAndName splits a traversal.
GlobalRefs == {<<global, n>> : n \in GlobalNames}
LocalRefs == {<<local, n>> : n \in LocalNames}

RefSets(R) == {S \in SUBSET R : Cardinality(S) <= MaxRefs}

\* The nil hcl.Expression.
NilExpr == [refs |-> {}, vars |-> <<>>, kind |-> "nil", k |-> 0]

\* The empty Go map.
EmptyMap == [n \in {} |-> 0]

\* m[key] = val
MapSet(m, key, val) == [n \in DOMAIN m \cup {key} |-> IF n = key THEN val ELSE m[n]]

RECURSIVE SumOver(_, _)
SumOver(S, f) ==
    IF S = {} THEN 0
    ELSE LET e == CHOOSE e \in S : TRUE
         IN f[e] + SumOver(S \ {e}, f)

\* The references of an expression in the order Expr.Variables() returns them
\* (the order of the source text): here globals before locals, each by name.
RefRank(r) ==
    NameIndex(r[2]) + (IF r[1] = global THEN 0 ELSE IF r[1] = local THEN 4 ELSE 8)

RECURSIVE InOrder(_)
InOrder(S) ==
    IF S = {} THEN <<>>
    ELSE LET r == CHOOSE r \in S : \A q \in S : RefRank(r) <= RefRank(q)
         IN <<r>> \o InOrder(S \ {r})

\* One block: the attributes named D, choice[n] = <<refs, kind>> for each.
MkBlock(f, D, choice) ==
    [n \in D |-> [refs |-> choice[n][1], vars |-> InOrder(choice[n][1]),
                  kind |-> choice[n][2], k |-> K(f, n)]]

Blocks(f, Names, Choices) ==
    UNION {{MkBlock(f, D, c) : c \in [D -> Choices]} : D \in SUBSET Names}

\* What recover() returns when nothing panicked.
NoPanic == 0

\* hcl.Expression.Value(ctx): variables maps a root name to its object.  A read
\* of a root or an attribute the context does not hold is an error diagnostic.
\* panic is the value the call panicked with, NoPanic when it returned.
ExprValue(expr, variables) ==
    LET known(r) == r[1] \in DOMAIN variables /\ r[2] \in DOMAIN variables[r[1]]
        val == [r \in expr.refs |-> IF known(r) THEN variables[r[1]][r[2]] ELSE 0]
    IN IF expr.kind = "panic"
       THEN [ok |-> FALSE, val |-> 0, panic |-> expr.k]
       ELSE IF expr.kind # "ok" \/ \E r \in expr.refs : ~known(r)
       THEN [ok |-> FALSE, val |-> 0, panic |-> NoPanic]
       ELSE [ok |-> TRUE, val |-> expr.k + SumOver(expr.refs, val), panic |-> NoPanic]

----------------------------------------------------------------------------
(* The Convergence Evaluator *)

\* What a function returned: err is "" for a nil error; vals is the map
\* evaluateGlobalsBlock returns (hasVals: it is not nil); results are the
\* EvaluationResults of ParseConfigVariables, child first.
\* RecoveredValue and ConfigFile are the fields of a PanicWhileParsingConfig.
NoRet == [done |-> FALSE, err |-> "", vals |-> EmptyMap, hasVals |-> FALSE, results |-> <<>>,
          RecoveredValue |-> NoPanic, ConfigFile |-> ""]
Return(vals) == [NoRet EXCEPT !.done = TRUE, !.vals = vals, !.hasVals = TRUE]
ReturnNil == [NoRet EXCEPT !.done = TRUE]
ReturnErr(e) == [NoRet EXCEPT !.done = TRUE, !.err = e]
ReturnErrOf(r) ==
    [ReturnErr(r.err) EXCEPT !.RecoveredValue = r.RecoveredValue, !.ConfigFile = r.ConfigFile]
ReturnResults(rs) == [NoRet EXCEPT !.done = TRUE, !.results = rs]

\* getGlobalsBlock taking the first block when there are several.
getGlobalsBlockFirst(hclFile) ==
    IF Len(hclFile.globals) >= 1
    THEN [block |-> hclFile.globals[1], found |-> TRUE, err |-> FALSE]
    ELSE [block |-> EmptyMap, found |-> FALSE, err |-> FALSE]

\* getGlobalsBlock: the one globals block of the file, none, or the
\* "Multiple globals block" diagnostic.
getGlobalsBlock(hclFile) ==
    IF Len(hclFile.globals) = 1
    THEN [block |-> hclFile.globals[1], found |-> TRUE, err |-> FALSE]
    ELSE IF Len(hclFile.globals) > 1
    THEN [block |-> EmptyMap, found |-> FALSE, err |-> TRUE]
    ELSE [block |-> EmptyMap, found |-> FALSE, err |-> FALSE]

\* The orders in which a range over the attribute map can deliver the names.
Orders(D) ==
    {s \in [1 .. Cardinality(D) -> D] : \A i, j \in DOMAIN s : i # j => s[i] # s[j]}

\* decodeGlobalsBlock: the name/expression pairs, in the order of the range.
decodeGlobalsBlock(globalsBlock, order) ==
    [i \in DOMAIN order |-> [Name |-> order[i], Expr |-> globalsBlock[order[i]]]]

\* canEvaluate: every global the expression reads has a value.
canEvaluate(expr, evaluatedMap) ==
    \A r \in expr.refs : r[1] = global => r[2] \in DOMAIN evaluatedMap

\* The evaluation context of a sweep: the globals evaluated before it.
SweepEvalContext(evaluatedMap) == [r \in {global} |-> evaluatedMap]

\* The named results of attemptEvaluateGlobals when it is entered, and with
\* them the contents of the map it was given (evaluatedGlobals), which the
\* caller still holds while the function runs.
attemptResults(evaluatedMap, newEvaluatedGlobals) ==
    [unevaluatedGlobals |-> <<>>, newEvaluatedGlobals |-> newEvaluatedGlobals,
     evaluatedGlobals |-> evaluatedMap,
     evaluated |-> FALSE, err |-> "", RecoveredValue |-> NoPanic, ConfigFile |-> ""]

\* The loop of attemptEvaluateGlobals.  A panic leaves the named results as
\* they are; RecoveredValue is what the deferred recover() will return.
RECURSIVE attemptLoop(_, _, _, _, _)
attemptLoop(gs, i, evaluatedMap, evalCtx, acc) ==
    IF i > Len(gs) THEN acc
    ELSE IF canEvaluate(gs[i].Expr, evaluatedMap)
    THEN LET v == ExprValue(gs[i].Expr, evalCtx)
         IN IF v.panic # NoPanic
            THEN [acc EXCEPT !.RecoveredValue = v.panic]
            ELSE IF ~v.ok
            THEN [acc EXCEPT !.unevaluatedGlobals = <<>>, !.newEvaluatedGlobals = evaluatedMap,
                             !.evaluated = FALSE, !.err = "Diagnostics"]
            ELSE attemptLoop(gs, i + 1, evaluatedMap, evalCtx,
                     [acc EXCEPT !.newEvaluatedGlobals = MapSet(@, gs[i].Name, v.val),
                                 !.evaluated = TRUE])
    ELSE attemptLoop(gs, i + 1, evaluatedMap, evalCtx,
             [acc EXCEPT !.unevaluatedGlobals = Append(@, gs[i])])

\* The deferred function of attemptEvaluateGlobals, run on the named results r.
recoverPanic(filename, r) ==
    IF r.RecoveredValue # NoPanic
    THEN [r EXCEPT !.err = "PanicWhileParsingConfig", !.ConfigFile = filename]
    ELSE r

\* attemptEvaluateGlobals without the copy of the map it receives.
attemptEvaluateGlobalsNoCopy(filename, gs, evaluatedMap) ==
    recoverPanic(filename,
        attemptLoop(gs, 1, evaluatedMap, SweepEvalContext(evaluatedMap),
                    attemptResults(evaluatedMap, EmptyMap)))

\* attemptEvaluateGlobals deciding and evaluating each global against the map
\* as the sweep has extended it so far.
RECURSIVE attemptLoopRunning(_, _, _)
attemptLoopRunning(gs, i, acc) ==
    IF i > Len(gs) THEN acc
    ELSE IF canEvaluate(gs[i].Expr, acc.newEvaluatedGlobals)
    THEN LET v == ExprValue(gs[i].Expr, SweepEvalContext(acc.newEvaluatedGlobals))
         IN IF v.panic # NoPanic
            THEN [acc EXCEPT !.RecoveredValue = v.panic]
            ELSE IF ~v.ok
            THEN [acc EXCEPT !.unevaluatedGlobals = <<>>, !.evaluated = FALSE,
                             !.err = "Diagnostics"]
            ELSE attemptLoopRunning(gs, i + 1,
                     [acc EXCEPT !.newEvaluatedGlobals = MapSet(@, gs[i].Name, v.val),
                                 !.evaluated = TRUE])
    ELSE attemptLoopRunning(gs, i + 1,
             [acc EXCEPT !.unevaluatedGlobals = Append(@, gs[i])])

attemptEvaluateGlobalsRunning(filename, gs, evaluatedMap) ==
    recoverPanic(filename, attemptLoopRunning(gs, 1, attemptResults(evaluatedMap, evaluatedMap)))

\* attemptEvaluateGlobals storing each value in the map it was given instead
\* of a copy of it.
attemptEvaluateGlobalsInPlace(filename, gs, evaluatedMap) ==
    LET r == recoverPanic(filename,
                 attemptLoopRunning(gs, 1, attemptResults(evaluatedMap, evaluatedMap)))
    IN [r EXCEPT !.evaluatedGlobals = r.newEvaluatedGlobals]

\* attemptEvaluateGlobals whose deferred function recovers the panic and
\* leaves err as it is.
attemptEvaluateGlobalsNoErr(filename, gs, evaluatedMap) ==
    attemptLoop(gs, 1, evaluatedMap, SweepEvalContext(evaluatedMap),
                attemptResults(evaluatedMap, evaluatedMap))

\* attemptEvaluateGlobals: one sweep.
attemptEvaluateGlobals(filename, gs, evaluatedMap) ==
    recoverPanic(filename,
        attemptLoop(gs, 1, evaluatedMap, SweepEvalContext(evaluatedMap),
                    attemptResults(evaluatedMap, evaluatedMap)))

\* The loop of evaluateGlobalsBlock and what follows it, run to its return
\* from the loop state (gs, evaluatedMap, wasEvaluated, iters).
RECURSIVE evaluateGlobalsLoop(_, _, _, _, _)
evaluateGlobalsLoop(filename, gs, evaluatedMap, wasEvaluated, iters) ==
    IF Len(gs) > 0 /\ wasEvaluated
    THEN IF iters > MaxIter
         THEN [ret |-> ReturnErr("MaxIterError"), iterations |-> iters]
         ELSE LET r == attemptEvaluateGlobals(filename, gs, evaluatedMap)
              IN IF r.err # ""
                 THEN [ret |-> ReturnErrOf(r), iterations |-> iters]
                 ELSE evaluateGlobalsLoop(filename, r.unevaluatedGlobals, r.newEvaluatedGlobals,
                                          r.evaluated, iters + 1)
    ELSE [ret |-> IF Len(gs) > 0
                  THEN ReturnErr("CouldNotEvaluateAllGlobalsError")
                  ELSE Return(evaluatedMap),
          iterations |-> iters]

\* evaluateGlobalsBlock(hclFile, filename) as a function of its arguments, the
\* range over the attributes delivering the names in the given order.
evaluateGlobalsBlock(hclFile, filename, order) ==
    LET b == getGlobalsBlock(hclFile)
    IN IF b.err THEN [ret |-> ReturnErr("MultipleGlobalsBlock"), iterations |-> 0]
       ELSE IF ~b.found THEN [ret |-> ReturnNil, iterations |-> 0]
       ELSE evaluateGlobalsLoop(filename, decodeGlobalsBlock(b.block, order),
                                EmptyMap, TRUE, 0)

\* evaluateGlobalsBlock up to its loop: the block is extracted and decoded.
EvaluateGlobalsBlockBegin ==
    /\ pc = "evaluateGlobalsBlock"
    /\ LET b == getGlobalsBlock(files[1])
       IN IF b.err
          THEN /\ ret' = ReturnErr("MultipleGlobalsBlock")
               /\ pc' = "returned"
               /\ UNCHANGED sweepVars
          ELSE IF ~b.found
          THEN /\ ret' = ReturnNil
               /\ pc' = "returned"
               /\ UNCHANGED sweepVars
          ELSE \E order \in Orders(DOMAIN b.block) :
               /\ globals' = decodeGlobalsBlock(b.block, order)
               /\ evaluatedGlobals' = EmptyMap
               /\ evaluated' = TRUE
               /\ iterations' = 0
               /\ pc' = "sweep"
               /\ UNCHANGED ret
    /\ UNCHANGED <<files, globalsFilename, parserVars, graphVars>>

\* The loop of evaluateGlobalsBlock without its test of iterations.
SweepNoCeiling ==
    /\ pc = "sweep"
    /\ Len(globals) > 0 /\ evaluated
    /\ LET r == attemptEvaluateGlobals(globalsFilename, globals, evaluatedGlobals)
       IN /\ globals' = r.unevaluatedGlobals
          /\ evaluatedGlobals' = r.newEvaluatedGlobals
          /\ evaluated' = r.evaluated
          /\ IF r.err # ""
             THEN /\ ret' = ReturnErrOf(r)
                  /\ pc' = "returned"
                  /\ UNCHANGED iterations
             ELSE /\ iterations' = iterations + 1
                  /\ UNCHANGED <<ret, pc>>
    /\ UNCHANGED <<files, globalsFilename, parserVars, graphVars>>

\* One iteration of the loop of evaluateGlobalsBlock.
Sweep ==
    /\ pc = "sweep"
    /\ Len(globals) > 0 /\ evaluated
    /\ IF iterations > MaxIter
       THEN /\ ret' = ReturnErr("MaxIterError")
            /\ pc' = "returned"
            /\ UNCHANGED sweepVars
       ELSE LET r == attemptEvaluateGlobals(globalsFilename, globals, evaluatedGlobals)
            IN /\ globals' = r.unevaluatedGlobals
               /\ evaluatedGlobals' = r.newEvaluatedGlobals
               /\ evaluated' = r.evaluated
               /\ IF r.err # ""
                  THEN /\ ret' = ReturnErrOf(r)
                       /\ pc' = "returned"
                       /\ UNCHANGED iterations
                  ELSE /\ iterations' = iterations + 1
                       /\ UNCHANGED <<ret, pc>>
    /\ UNCHANGED <<files, globalsFilename, parserVars, graphVars>>

\* The end of evaluateGlobalsBlock without the check for globals left over.
EvaluateGlobalsBlockEndNoCheck ==
    /\ pc = "sweep"
    /\ ~(Len(globals) > 0 /\ evaluated)
    /\ ret' = Return(evaluatedGlobals)
    /\ pc' = "returned"
    /\ UNCHANGED <<files, globalsFilename, parserVars, sweepVars, graphVars>>

\* The loop has ended: all globals are evaluated, or the last sweep evaluated none.
EvaluateGlobalsBlockEnd ==
    /\ pc = "sweep"
    /\ ~(Len(globals) > 0 /\ evaluated)
    /\ ret' = IF Len(globals) > 0
              THEN ReturnErr("CouldNotEvaluateAllGlobalsError")
              ELSE Return(evaluatedGlobals)
    /\ pc' = "returned"
    /\ UNCHANGED <<files, globalsFilename, parserVars, sweepVars, graphVars>>

----------------------------------------------------------------------------
(* Inputs of the Convergence Evaluator: one file *)

NoFile == [locals |-> <<>>, globals |-> <<>>]

SweepChoices == RefSets(GlobalRefs) \X {"ok", "error", "panic"}

\* The names evaluateGlobalsBlock is called with.
Filenames == {"/live/terragrunt.hcl", "/live/app/terragrunt.hcl"}

\* Blocks of a file that declares globals twice.
SmallChoices == {<<{}, "ok">>, <<{<<global, "a">>}, "ok">>}
SmallBlocks == Blocks(1, {"a", "b"}, SmallChoices)

\* The files evaluateGlobalsBlock is given, their expressions drawn from Choices.
SweepFiles(Choices) ==
    {[locals |-> <<>>, globals |-> <<b>>] : b \in Blocks(1, GlobalNames, Choices)}
    \cup {NoFile}
    \cup {[locals |-> <<>>, globals |-> <<b1, b2>>] : b1 \in SmallBlocks, b2 \in SmallBlocks}

GraphInit ==
    /\ graph = [vertices |-> {}, edges |-> {}]
    /\ vertices = EmptyMap
    /\ values = EmptyMap
    /\ localVertices = <<EmptyMap, EmptyMap>>
    /\ localValues = <<EmptyMap, EmptyMap>>
    /\ evaluateGlobals = FALSE
    /\ queue = <<>>
    /\ visited = {}
    /\ diags = <<>>
    /\ calls = EmptyMap

\* No ConfigParser is running.
ParserInit ==
    /\ version = ""
    /\ disk = EmptyMap
    /\ parsers = <<>>
    /\ level = 0
    /\ log = <<>>

SweepInit ==
    /\ globals = <<>>
    /\ evaluatedGlobals = EmptyMap
    /\ evaluated = FALSE
    /\ iterations = 0

InitSweep ==
    /\ files \in {<<f>> : f \in SweepFiles(SweepChoices)}
    /\ globalsFilename \in Filenames
    /\ pc = "evaluateGlobalsBlock"
    /\ ret = NoRet
    /\ SweepInit
    /\ GraphInit
    /\ ParserInit

NextSweep ==
    \/ EvaluateGlobalsBlockBegin
    \/ Sweep
    \/ EvaluateGlobalsBlockEnd

SpecSweep == InitSweep /\ [][NextSweep]_vars

----------------------------------------------------------------------------
(* The Convergence Evaluator at its sweep ceiling *)

\* A block that takes MaxIter sweeps before its last bindings come up: the
\* chain g1, g2 = f(g1), ..., a = f(g<MaxIter - 1>), followed by bindings b
\* and c that read a, b or c.
PrefixLen == MaxIter - 1
PrefixName == [i \in 1 .. PrefixLen |-> "g" \o ToString(i)]
PrefixNames == {PrefixName[i] : i \in 1 .. PrefixLen}
PrefixIndex == [n \in PrefixNames |-> CHOOSE i \in 1 .. PrefixLen : PrefixName[i] = n]

PrefixExpr(i) ==
    LET rs == IF i = 1 THEN {} ELSE {<<global, PrefixName[i - 1]>>}
    IN [refs |-> rs, vars |-> IF i = 1 THEN <<>> ELSE <<<<global, PrefixName[i - 1]>>>>,
        kind |-> "ok", k |-> 8 + i]

PrefixBlock ==
    [n \in PrefixNames \cup {"a"} |->
        IF n = "a"
        THEN [refs |-> {<<global, PrefixName[PrefixLen]>>},
              vars |-> <<<<global, PrefixName[PrefixLen]>>>>,
              kind |-> "ok", k |-> K(1, "a")]
        ELSE PrefixExpr(PrefixIndex[n])]

\* The values of the chain: each binding's constant plus the value it reads.
PrefixValue(i) == 8 * i + (i * (i + 1)) \div 2
PrefixValues ==
    [n \in PrefixNames \cup {"a"} |->
        IF n = "a" THEN K(1, "a") + PrefixValue(PrefixLen) ELSE PrefixValue(PrefixIndex[n])]

\* The bindings that follow the chain: each reads at least one of a, b, c.
TailNames == {"b", "c"}
TailChoices == (RefSets(GlobalRefs) \ {{}}) \X {"ok", "error", "panic"}
TailBlocks == Blocks(1, TailNames, TailChoices) \ {EmptyMap}

\* A block from its first sweep.
CeilingStartChoices == RefSets(GlobalRefs) \X {"ok"}
CeilingStartFiles(Choices) ==
    {[locals |-> <<>>, globals |-> <<b>>] : b \in Blocks(1, GlobalNames, Choices)}

\* evaluateGlobalsBlock at the head of its loop after MaxIter sweeps over the
\* chain followed by tail: sweep i evaluated g<i>, the last one a; the
\* bindings of tail were carried along in their order.
AtCeiling(tail, order) ==
    /\ files = <<[locals |-> <<>>,
                  globals |-> <<[n \in DOMAIN PrefixBlock \cup DOMAIN tail |->
                                    IF n \in DOMAIN tail THEN tail[n] ELSE PrefixBlock[n]]>>]>>
    /\ pc = "sweep"
    /\ globals = decodeGlobalsBlock(tail, order)
    /\ evaluatedGlobals = PrefixValues
    /\ evaluated = TRUE
    /\ iterations = MaxIter

InitCeiling ==
    /\ globalsFilename \in Filenames
    /\ ret = NoRet
    /\ GraphInit
    /\ ParserInit
    /\ \/ /\ files \in {<<f>> : f \in CeilingStartFiles(CeilingStartChoices)}
          /\ pc = "evaluateGlobalsBlock"
          /\ SweepInit
       \/ \E tail \in TailBlocks : \E order \in Orders(DOMAIN tail) : AtCeiling(tail, order)

\* The statements of evaluateGlobalsBlock follow one another without waiting.
SpecCeiling == InitCeiling /\ [][NextSweep]_vars /\ WF_vars(NextSweep)

----------------------------------------------------------------------------
(* Properties of the Convergence Evaluator *)

\* The globals block of the file under evaluateGlobalsBlock, when it has one.
OneGlobalsBlock == Len(files[1].globals) = 1
TheBlock == files[1].globals[1]

\* The names a binding of block b reads.
GlobalsRead(b, n) == {r[2] : r \in {q \in b[n].refs : q[1] = global}}

\* The bindings of b that become ready: the least set holding every binding
\* whose globals are all in it, built level by level.  Levels(b, S, i) is that
\* set and the number of levels it took.
RECURSIVE Levels(_, _, _)
Levels(b, S, i) ==
    LET next == {n \in DOMAIN b : GlobalsRead(b, n) \subseteq S}
    IN IF next = S THEN [ready |-> S, depth |-> i] ELSE Levels(b, next, i + 1)

Ready(b) == Levels(b, {}, 0).ready
Depth(b) == Levels(b, {}, 0).depth

\* Every global read is defined in the block, and no binding reads itself
\* directly or through other bindings.
SelfContained(b) == \A n \in DOMAIN b : b[n].refs \subseteq {<<global, m>> : m \in DOMAIN b}
NoCycle(b) ==
    LET defined == [n \in DOMAIN b |-> [b[n] EXCEPT !.refs = {r \in @ : r[2] \in DOMAIN b}]]
    IN Ready(defined) = DOMAIN b
AllOk(b) == \A n \in DOMAIN b : b[n].kind = "ok"

NeverReady(b) == Ready(b) # DOMAIN b

RECURSIVE NameOrder(_)
NameOrder(D) ==
    IF D = {} THEN <<>>
    ELSE LET n == CHOOSE n \in D : \A m \in D : NameIndex(n) <= NameIndex(m)
         IN <<n>> \o NameOrder(D \ {n})

\* C8: for a block without a cycle, the map returned and the number of sweeps
\* are those of the run that takes the bindings in name order, whatever the
\* order of the pending list.
C8_SweepDeterministic ==
    (pc = "returned" /\ OneGlobalsBlock /\ NoCycle(TheBlock))
    => LET r == evaluateGlobalsBlock(files[1], globalsFilename, NameOrder(DOMAIN TheBlock))
       IN /\ ret.vals = r.ret.vals
          /\ ret.hasVals = r.ret.hasVals
          /\ iterations = r.iterations

\* After the first sweep of a call that took the bindings in the order c, b, a
\* (the reverse of the name order): c is evaluated, b and a are pending.
C8_Witness ==
    /\ pc = "sweep" /\ iterations = 1
    /\ OneGlobalsBlock /\ NoCycle(TheBlock)
    /\ DOMAIN TheBlock = GlobalNames /\ AllOk(TheBlock)
    /\ TheBlock["c"].refs = {}
    /\ TheBlock["a"].refs = {<<global, "c">>}
    /\ TheBlock["b"].refs = {<<global, "c">>}
    /\ DOMAIN evaluatedGlobals = {"c"}
    /\ Len(globals) = 2
    /\ globals[1].Name = "b" /\ globals[2].Name = "a"

\* C9: a file with more than one globals block makes evaluateGlobalsBlock
\* return an error and no map, and no binding of any block is evaluated.
C9_MultipleGlobalsBlocks ==
    Len(files[1].globals) > 1
    => /\ pc # "sweep"
       /\ globals = <<>> /\ evaluatedGlobals = EmptyMap
       /\ pc = "returned" => (ret.err # "" /\ ~ret.hasVals)

\* Two blocks, each of which alone would evaluate, were rejected.
C9_Witness ==
    /\ pc = "returned"
    /\ Len(files[1].globals) = 2
    /\ \A i \in 1 .. 2 :
         /\ DOMAIN files[1].globals[i] # {}
         /\ \A n \in DOMAIN files[1].globals[i] : files[1].globals[i][n].refs = {}
    /\ ret.err = "MultipleGlobalsBlock"

\* The pending globals the next sweep evaluates, and the first of them whose
\* expression does not return a value.
Evaluable == {i \in DOMAIN globals : GlobalsRead(TheBlock, globals[i].Name) \subseteq DOMAIN evaluatedGlobals}
Faulty == {i \in Evaluable : globals[i].Expr.kind # "ok"}
FirstFaulty == CHOOSE i \in Faulty : \A j \in Faulty : i <= j

\* The next sweep runs into a panic.
SweepPanics ==
    /\ pc = "sweep" /\ Len(globals) > 0 /\ evaluated /\ iterations <= MaxIter
    /\ Faulty # {} /\ globals[FirstFaulty].Expr.kind = "panic"

\* C17: fault containment in a sweep.  A sweep in which an expression panics
\* makes evaluateGlobalsBlock return PanicWhileParsingConfig with the value
\* the expression panicked with and the file name, and no map; no sweep follows.
C17_PanicContained ==
    [][SweepPanics =>
          /\ pc' = "returned"
          /\ ret'.err = "PanicWhileParsingConfig"
          /\ ret'.RecoveredValue = globals[FirstFaulty].Expr.k
          /\ ret'.ConfigFile = globalsFilename
          /\ ~ret'.hasVals
          /\ iterations' = iterations]_vars

\* The second sweep of a call panicked in b = f(a) after the first had
\* evaluated a.
C17_Witness ==
    /\ pc = "returned" /\ OneGlobalsBlock
    /\ {"a", "b"} \subseteq DOMAIN TheBlock
    /\ TheBlock["a"].refs = {} /\ TheBlock["a"].kind = "ok"
    /\ TheBlock["b"].refs = {<<global, "a">>} /\ TheBlock["b"].kind = "panic"
    /\ iterations = 1
    /\ ret.err = "PanicWhileParsingConfig"
    /\ ret.RecoveredValue = TheBlock["b"].k
    /\ ret.ConfigFile = globalsFilename
    /\ ~ret.hasVals

\* The loop is at its head with globals pending after a sweep that evaluated
\* some, and the ceiling is passed.
CeilingPassed ==
    pc = "sweep" /\ Len(globals) > 0 /\ evaluated /\ iterations > MaxIter

\* C18: sweep ceiling and termination.  evaluateGlobalsBlock returns on every
\* input; no sweep starts after MaxIter + 1 sweeps; and when the ceiling is
\* passed with globals pending after a sweep that made progress, the call
\* returns MaxIterError and no map.
C18_SweepCeiling ==
    /\ [](iterations <= MaxIter + 1)
    /\ [][/\ sweepVars' # sweepVars => iterations <= MaxIter
          /\ CeilingPassed =>
                /\ pc' = "returned"
                /\ ret'.err = "MaxIterError"
                /\ ~ret'.hasVals]_vars
    /\ <>(pc = "returned")

\* The chain was one binding longer than the ceiling allows: c = f(b),
\* b = f(a) is left pending after MaxIter + 1 sweeps and the call has failed.
C18_Witness ==
    /\ pc = "returned"
    /\ iterations = MaxIter + 1
    /\ ret.err = "MaxIterError" /\ ~ret.hasVals
    /\ Len(globals) = 1 /\ globals[1].Name = "c"
    /\ globals[1].Expr.kind = "ok" /\ globals[1].Expr.refs = {<<global, "b">>}
    /\ "b" \in DOMAIN evaluatedGlobals

\* The sweeps the call has run: those that returned without error, and the
\* one that returned the error the call ended with.
SweepErrors == {"Diagnostics", "PanicWhileParsingConfig"}
SweepsRun == iterations + (IF ret.err \in SweepErrors THEN 1 ELSE 0)

\* The number of bindings on the longest chain of references that ends in n.
RECURSIVE ChainLength(_, _)
ChainLength(b, n) ==
    LET below == {ChainLength(b, m) : m \in GlobalsRead(b, n) \cap DOMAIN b}
    IN 1 + (IF below = {} THEN 0 ELSE CHOOSE l \in below : \A k \in below : k <= l)

LongestChain(b) ==
    LET all == {ChainLength(b, n) : n \in DOMAIN b}
    IN CHOOSE l \in all : \A k \in all : k <= l

\* C19: sweep count bound.  For a non-empty block the number of sweeps never
\* exceeds the number of bindings, and a call that succeeds has run as many
\* sweeps as the longest reference chain has bindings.
C19_SweepCount ==
    (OneGlobalsBlock /\ DOMAIN TheBlock # {}) =>
        /\ SweepsRun <= Cardinality(DOMAIN TheBlock)
        /\ (pc = "returned" /\ ret.err = "" /\ ret.hasVals) =>
              SweepsRun = LongestChain(TheBlock)

\* c = f(a, b), b = f(a): three sweeps for three bindings on one chain.
C19_Witness ==
    /\ pc = "returned" /\ OneGlobalsBlock
    /\ DOMAIN TheBlock = GlobalNames
    /\ TheBlock["a"].refs = {}
    /\ TheBlock["b"].refs = {<<global, "a">>}
    /\ TheBlock["c"].refs = {<<global, "a">>, <<global, "b">>}
    /\ ret.err = "" /\ ret.hasVals
    /\ iterations = 3

\* A sweep is about to run.
SweepBegins == pc = "sweep" /\ Len(globals) > 0 /\ evaluated /\ iterations <= MaxIter

\* The pending bindings that are, and that are not, ready at the start of the
\* sweep, in the order of the pending list.
ReadyAtStart == SelectSeq(globals, LAMBDA g : GlobalsRead(TheBlock, g.Name) \subseteq DOMAIN evaluatedGlobals)
PendingAtStart == SelectSeq(globals, LAMBDA g : ~(GlobalsRead(TheBlock, g.Name) \subseteq DOMAIN evaluatedGlobals))

\* The step evaluates exactly the bindings ready at the start of the sweep,
\* each against the map as it stood then, and leaves the others pending.
SweptExactly ==
    LET ready == {ReadyAtStart[i].Name : i \in DOMAIN ReadyAtStart}
        start == [r \in {global} |-> evaluatedGlobals]
    IN /\ globals' = PendingAtStart
       /\ DOMAIN evaluatedGlobals' = DOMAIN evaluatedGlobals \cup ready
       /\ \A n \in DOMAIN evaluatedGlobals : evaluatedGlobals'[n] = evaluatedGlobals[n]
       /\ \A n \in ready : evaluatedGlobals'[n] = ExprValue(TheBlock[n], start).val
       /\ \A i \in DOMAIN globals :
             (GlobalsRead(TheBlock, globals[i].Name) \cap ready # {}) =>
                 \E j \in DOMAIN globals' : globals'[j] = globals[i]
       /\ evaluated' = (ready # {})
       /\ pc' = "sweep"

\* The claim as stated: every sweep evaluates all the bindings ready at its
\* start and removes them from pending.
C26_Original == [][SweepBegins => SweptExactly]_vars

\* The sweep stops at the first ready binding whose expression fails or
\* panics: evaluateGlobalsBlock returns that error and no value map.
SweepAborted ==
    /\ pc' = "returned"
    /\ ret'.err = (IF globals[FirstFaulty].Expr.kind = "panic"
                   THEN "PanicWhileParsingConfig" ELSE "Diagnostics")
    /\ ~ret'.hasVals

\* C26: sweep semantics.  A sweep in which no ready expression fails
\* evaluates exactly the pending bindings whose referenced globals all have
\* a value at the start of the sweep, each against the start-of-sweep map,
\* and a binding that reads a global first evaluated in this sweep stays
\* pending; a sweep in which a ready expression fails stops there with its
\* error.
C26_SweepSemantics ==
    [][SweepBegins => IF Faulty = {} THEN SweptExactly ELSE SweepAborted]_vars

\* After the first sweep of a = const, b = f(a), c = f(b): a has its value,
\* b, whose reference was evaluated in that sweep, and c are still pending.
C26_Witness ==
    /\ pc = "sweep" /\ OneGlobalsBlock /\ iterations = 1
    /\ DOMAIN TheBlock = GlobalNames
    /\ TheBlock["b"].refs = {<<global, "a">>}
    /\ TheBlock["c"].refs = {<<global, "b">>}
    /\ DOMAIN evaluatedGlobals = {"a"} /\ evaluatedGlobals["a"] = K(1, "a")
    /\ {globals[i].Name : i \in DOMAIN globals} = {"b", "c"}

\* The names of the pending bindings.
PendingNames == {globals[i].Name : i \in DOMAIN globals}

\* The sweep that is about to run leaves the map it is given as it is, and on
\* an evaluation error hands that same map back.
ReceivedMapKept ==
    SweepBegins =>
        LET r == attemptEvaluateGlobals(globalsFilename, globals, evaluatedGlobals)
        IN /\ r.evaluatedGlobals = evaluatedGlobals
           /\ r.err = "Diagnostics" => r.newEvaluatedGlobals = evaluatedGlobals
           /\ r.err = "" => \A n \in DOMAIN evaluatedGlobals :
                                /\ n \in DOMAIN r.newEvaluatedGlobals
                                /\ r.newEvaluatedGlobals[n] = evaluatedGlobals[n]

\* A sweep that failed leaves the caller of evaluateGlobalsBlock without a map.
NoMapOnFailure ==
    (pc = "returned" /\ ret.err \in SweepErrors) => (~ret.hasVals /\ ret.vals = EmptyMap)

\* Between sweeps, every declared name is either pending or evaluated.
SweepPartition ==
    pc = "sweep" =>
        /\ PendingNames \cap DOMAIN evaluatedGlobals = {}
        /\ PendingNames \cup DOMAIN evaluatedGlobals = DOMAIN TheBlock

\* A step keeps every name of the accumulated map, with its value.
MapGrows ==
    \A n \in DOMAIN evaluatedGlobals :
        n \in DOMAIN evaluatedGlobals' /\ evaluatedGlobals'[n] = evaluatedGlobals[n]

----------------------------------------------------------------------------
(* The Graph Evaluator: vertices and the dag library *)

\* rootVertex{}.  Vertices are Go values: two vertices are the same key of the
\* graph's sets when all their fields are equal.
rootVertex ==
    [Evaluator |-> 0, Type |-> "root", Name |-> "", Expr |-> NilExpr, Evaluated |-> FALSE]

\* A variableVertex value; Evaluator is 1 (child), 2 (parent) or 0 (nil).
variableVertex(ev, vertexType, name, expr) ==
    [Evaluator |-> ev, Type |-> vertexType, Name |-> name, Expr |-> expr,
     Evaluated |-> FALSE]

\* eval.includeVertex: a nil *variableVertex, which is never assigned.
includeVertex ==
    [Evaluator |-> 0, Type |-> "nil", Name |-> "", Expr |-> NilExpr, Evaluated |-> FALSE]

\* dag.Graph.DownEdges / UpEdges
DownEdges(g, v) == {e[2] : e \in {d \in g.edges : d[1] = v}}
UpEdges(g, v) == {e[1] : e \in {d \in g.edges : d[2] = v}}

RECURSIVE Closure(_, _)
Closure(g, S) ==
    LET next == S \cup UNION {DownEdges(g, v) : v \in S}
    IN IF next = S THEN S ELSE Closure(g, next)

\* The vertices reached from v by one edge or more.
ReachPlus(g, v) == Closure(g, DownEdges(g, v))

\* dag.AcyclicGraph.Validate: exactly one vertex without up edges, no cycle,
\* no edge from a vertex to itself.  "" when the graph is valid.
Validate(g) ==
    LET roots == {v \in g.vertices : UpEdges(g, v) = {}}
    IN IF Cardinality(roots) > 1 THEN "multiple roots"
       ELSE IF Cardinality(roots) = 0 THEN "no roots found"
       ELSE IF \E v \in g.vertices : v \in ReachPlus(g, v) THEN "Cycle"
       ELSE IF \E e \in g.edges : e[1] = e[2] THEN "Self reference"
       ELSE ""

\* dag.AcyclicGraph.TransitiveReduction: for each vertex u of the graph, the
\* edge (u, w) is removed when w is reached from a direct descendant of u.
TransitiveReduction(g) ==
    [g EXCEPT !.edges =
        {e \in g.edges :
            ~(e[1] \in g.vertices
              /\ \E v \in DownEdges(g, e[1]) : e[2] \in ReachPlus(g, v))}]

----------------------------------------------------------------------------
(* configEvaluator *)

\* getLocalsBlock: as getGlobalsBlock, for the locals block.
getLocalsBlock(hclFile) ==
    IF Len(hclFile.locals) = 1
    THEN [block |-> hclFile.locals[1], found |-> TRUE, err |-> FALSE]
    ELSE IF Len(hclFile.locals) > 1
    THEN [block |-> EmptyMap, found |-> FALSE, err |-> TRUE]
    ELSE [block |-> EmptyMap, found |-> FALSE, err |-> FALSE]

\* configEvaluator.getBlocks
getBlocks(file) ==
    LET l == getLocalsBlock(file)
        g == getGlobalsBlock(file)
    IN IF l.err THEN [err |-> "MultipleLocalsBlock", localsBlock |-> l, globalsBlock |-> g]
       ELSE IF g.err THEN [err |-> "MultipleGlobalsBlock", localsBlock |-> l, globalsBlock |-> g]
       ELSE [err |-> "", localsBlock |-> l, globalsBlock |-> g]

\* The vertex addVertices makes for one attribute: the registered global
\* vertex of that name when it has no expression yet, else a fresh vertex.
addVertex(e, vertexType, name, expr, vs) ==
    IF vertexType = global /\ name \in DOMAIN vs /\ vs[name].Expr = NilExpr
    THEN [vs[name] EXCEPT !.Evaluator = e, !.Expr = expr]
    ELSE variableVertex(e, vertexType, name, expr)

\* configEvaluator.addVertices: the vertices handed to the consumer, by name.
addVertices(e, vertexType, block, vs) ==
    [n \in DOMAIN block |-> addVertex(e, vertexType, n, block[n], vs)]

\* m with the entries of new written over it.
MapMerge(m, new) ==
    [n \in DOMAIN m \cup DOMAIN new |-> IF n \in DOMAIN new THEN new[n] ELSE m[n]]

Range(m) == {m[n] : n \in DOMAIN m}

RECURSIVE addEdgesLoop(_, _, _, _, _)
addEdgesLoop(target, i, vs, lvs, acc) ==
    IF i > Len(target.Expr.vars) THEN acc
    ELSE LET sourceType == target.Expr.vars[i][1]
             sourceName == target.Expr.vars[i][2]
         IN IF sourceType = global
            THEN LET source == IF sourceName \in DOMAIN vs
                               THEN vs[sourceName]
                               ELSE variableVertex(0, global, sourceName, NilExpr)
                 IN addEdgesLoop(target, i + 1, vs, lvs, acc \cup {<<source, target>>})
            ELSE IF sourceType = local
            THEN IF sourceName \in DOMAIN lvs
                 THEN addEdgesLoop(target, i + 1, vs, lvs,
                          acc \cup {<<lvs[sourceName], target>>})
                 ELSE acc
            ELSE IF sourceType = include
            THEN addEdgesLoop(target, i + 1, vs, lvs, acc \cup {<<includeVertex, target>>})
            ELSE acc

\* configEvaluator.addEdges: the edges connected for one target, given the
\* registered global vertices vs and the evaluator's local vertices lvs.
addEdges(target, vs, lvs) ==
    IF target.Expr = NilExpr THEN {}
    ELSE IF Len(target.Expr.vars) = 0 THEN {<<rootVertex, target>>}
    ELSE addEdgesLoop(target, 1, vs, lvs, {})

\* configEvaluator.addAllEdges
addAllEdges(targets, vs, lvs) == UNION {addEdges(t, vs, lvs) : t \in Range(targets)}

\* configEvaluator.decodeConfig of evaluator e on the state (g, vs, lvs):
\* the error it returns and the state it leaves.
decodeConfig(e, file, g, vs, lvs) ==
    LET blocks == getBlocks(file)
        newLocals == IF blocks.localsBlock.found
                     THEN addVertices(e, local, blocks.localsBlock.block, vs)
                     ELSE EmptyMap
        lvs1 == MapMerge(lvs, newLocals)
        newGlobals == IF blocks.globalsBlock.found
                      THEN addVertices(e, global, blocks.globalsBlock.block, vs)
                      ELSE EmptyMap
        vs1 == MapMerge(vs, newGlobals)
        g1 == [vertices |-> g.vertices \cup Range(newLocals) \cup Range(newGlobals),
               edges |-> g.edges \cup addAllEdges(lvs1, vs1, lvs1)
                                 \cup addAllEdges(vs1, vs1, lvs1)]
        invalid == Validate(g1)
    IN IF blocks.err # ""
       THEN [err |-> blocks.err, graph |-> g, vertices |-> vs, localVertices |-> lvs]
       ELSE IF invalid # ""
       THEN [err |-> invalid, graph |-> g1, vertices |-> vs1, localVertices |-> lvs1]
       ELSE [err |-> "", graph |-> TransitiveReduction(g1), vertices |-> vs1,
             localVertices |-> lvs1]

\* A context that takes the local values of the child whichever file asks.
convertValuesToVariablesOfChild(e, vals, lvals) ==
    [r \in {local, global} |-> IF r = local THEN lvals[1] ELSE vals]

\* configEvaluator.convertValuesToVariables
convertValuesToVariables(e, vals, lvals) ==
    [r \in {local, global} |-> IF r = local THEN lvals[e] ELSE vals]

\* evaluateVariable without its test of evaluateGlobals: a global is
\* evaluated in either pass.
evaluateVariableInAnyPass(vertex, evalGlobals, vals, lvals) ==
    LET e == vertex.Evaluator
        same == [cont |-> FALSE, called |-> FALSE, values |-> vals, localValues |-> lvals]
    IN IF vertex.Evaluated THEN [same EXCEPT !.cont = TRUE]
       ELSE LET v == ExprValue(vertex.Expr, [r \in {local, global} |->
                                                IF r = local THEN lvals[e] ELSE vals])
            IN IF ~v.ok THEN [same EXCEPT !.called = TRUE]
               ELSE IF vertex.Type = global
               THEN [cont |-> TRUE, called |-> TRUE,
                     values |-> MapSet(vals, vertex.Name, v.val), localValues |-> lvals]
               ELSE IF vertex.Type = local
               THEN [cont |-> TRUE, called |-> TRUE, values |-> vals,
                     localValues |-> [lvals EXCEPT ![e] = MapSet(@, vertex.Name, v.val)]]
               ELSE [same EXCEPT !.called = TRUE]

\* configEvaluator.evaluateVariable, the vertex passed by value: what it
\* returns (cont), whether it called Expr.Value, and the value maps it leaves.
evaluateVariable(vertex, evalGlobals, vals, lvals) ==
    LET e == vertex.Evaluator
        same == [cont |-> FALSE, called |-> FALSE, values |-> vals, localValues |-> lvals]
    IN IF vertex.Type = global /\ ~evalGlobals THEN same
       ELSE IF vertex.Evaluated THEN [same EXCEPT !.cont = TRUE]
       ELSE LET v == ExprValue(vertex.Expr, convertValuesToVariables(e, vals, lvals))
            IN IF ~v.ok THEN [same EXCEPT !.called = TRUE]
               ELSE IF vertex.Type = global
               THEN [cont |-> TRUE, called |-> TRUE,
                     values |-> MapSet(vals, vertex.Name, v.val), localValues |-> lvals]
               ELSE IF vertex.Type = local
               THEN [cont |-> TRUE, called |-> TRUE, values |-> vals,
                     localValues |-> [lvals EXCEPT ![e] = MapSet(@, vertex.Name, v.val)]]
               ELSE [same EXCEPT !.called = TRUE]

\* The callback evaluateVariables hands to walkBreadthFirst.
visit(v, evalGlobals, vals, lvals) ==
    IF v = rootVertex
    THEN [cont |-> TRUE, called |-> FALSE, values |-> vals, localValues |-> lvals]
    ELSE IF v.Type \notin {local, global}
    THEN [cont |-> FALSE, called |-> FALSE, values |-> vals, localValues |-> lvals]
    ELSE evaluateVariable(v, evalGlobals, vals, lvals)

\* The history of Expr.Value calls: how often each expression was evaluated.
Called(c, k) == [n \in DOMAIN c \cup {k} |-> IF n = k THEN (IF k \in DOMAIN c THEN c[k] + 1 ELSE 1) ELSE c[n]]

\* configEvaluator.toResult
toResult(e, vals, lvals) == convertValuesToVariables(e, vals, lvals)

----------------------------------------------------------------------------
(* ParseConfigVariables *)

\* evaluateVariables(evalGlobals) begins: the walk starts at the root.
BeginWalk(evalGlobals) ==
    /\ evaluateGlobals' = evalGlobals
    /\ queue' = <<rootVertex>>
    /\ visited' = {}
    /\ diags' = <<>>

\* Steps 1 to 4, and pass 1 begins.
ParseConfigVariablesBegin ==
    /\ pc = "ParseConfigVariables"
    /\ LET d == decodeConfig(1, files[1], [vertices |-> {rootVertex}, edges |-> {}],
                             EmptyMap, EmptyMap)
       IN /\ graph' = d.graph
          /\ vertices' = d.vertices
          /\ localVertices' = [localVertices EXCEPT ![1] = d.localVertices]
          /\ IF d.err # ""
             THEN /\ ret' = ReturnErr(d.err)
                  /\ pc' = "returned"
                  /\ UNCHANGED <<evaluateGlobals, queue, visited, diags>>
             ELSE /\ BeginWalk(FALSE)
                  /\ pc' = "pass1"
                  /\ UNCHANGED ret
    /\ UNCHANGED <<files, globalsFilename, parserVars, sweepVars, values, localValues, calls>>

\* The loop of walkBreadthFirst without its visited set: every vertex taken
\* from the queue is handed to the callback.
WalkStepNoVisited ==
    /\ pc \in {"pass1", "pass2"}
    /\ Len(queue) > 0
    /\ LET v == Head(queue)
           r == visit(v, evaluateGlobals, values, localValues)
       IN /\ visited' = visited \cup {v}
          /\ values' = r.values
          /\ localValues' = r.localValues
          /\ calls' = IF r.called THEN Called(calls, v.Expr.k) ELSE calls
          /\ IF r.cont
             THEN \E children \in Orders(DownEdges(graph, v)) :
                      queue' = Tail(queue) \o children
             ELSE queue' = Tail(queue)
    /\ UNCHANGED <<files, globalsFilename, parserVars, pc, ret, sweepVars, graph, vertices, localVertices,
                   evaluateGlobals, diags>>

\* One iteration of the loop of walkBreadthFirst.
WalkStep ==
    /\ pc \in {"pass1", "pass2"}
    /\ Len(queue) > 0
    /\ LET v == Head(queue)
       IN IF v \in visited
          THEN /\ queue' = Tail(queue)
               /\ UNCHANGED <<visited, values, localValues, calls>>
          ELSE LET r == visit(v, evaluateGlobals, values, localValues)
               IN /\ visited' = visited \cup {v}
                  /\ values' = r.values
                  /\ localValues' = r.localValues
                  /\ calls' = IF r.called THEN Called(calls, v.Expr.k) ELSE calls
                  /\ IF r.cont
                     THEN \E children \in Orders(DownEdges(graph, v)) :
                              queue' = Tail(queue) \o children
                     ELSE queue' = Tail(queue)
    /\ UNCHANGED <<files, globalsFilename, parserVars, pc, ret, sweepVars, graph, vertices, localVertices,
                   evaluateGlobals, diags>>

\* Pass 1 has ended; steps 6 to 9 when there is a parent, and pass 2 begins.
ParseConfigVariablesParent ==
    /\ pc = "pass1"
    /\ Len(queue) = 0
    /\ IF Len(diags) > 0
       THEN /\ ret' = ReturnErr("Diagnostics")
            /\ pc' = "returned"
            /\ UNCHANGED <<graph, vertices, localVertices, evaluateGlobals, queue,
                           visited, diags>>
       ELSE IF Len(files) > 1
       THEN LET d == decodeConfig(2, files[2], graph, vertices, localVertices[2])
            IN /\ graph' = d.graph
               /\ vertices' = d.vertices
               /\ localVertices' = [localVertices EXCEPT ![2] = d.localVertices]
               /\ IF d.err # ""
                  THEN /\ ret' = ReturnErr(d.err)
                       /\ pc' = "returned"
                       /\ UNCHANGED <<evaluateGlobals, queue, visited, diags>>
                  ELSE /\ BeginWalk(TRUE)
                       /\ pc' = "pass2"
                       /\ UNCHANGED ret
       ELSE /\ BeginWalk(TRUE)
            /\ pc' = "pass2"
            /\ UNCHANGED <<ret, graph, vertices, localVertices>>
    /\ UNCHANGED <<files, globalsFilename, parserVars, sweepVars, values, localValues, calls>>

\* Pass 2 has ended: the results of the child and of the parent.
ParseConfigVariablesEnd ==
    /\ pc = "pass2"
    /\ Len(queue) = 0
    /\ ret' = IF Len(diags) > 0
              THEN ReturnErr("Diagnostics")
              ELSE ReturnResults([e \in 1 .. Len(files) |->
                                     toResult(e, values, localValues)])
    /\ pc' = "returned"
    /\ UNCHANGED <<files, globalsFilename, parserVars, sweepVars, graphVars>>

----------------------------------------------------------------------------
(* Inputs of the Graph Evaluator: a child file, or a child and its parent *)

GraphChoices == RefSets(GlobalRefs \cup LocalRefs) \X {"ok"}

\* A file with one locals block and one globals block (either may be empty).
OneFile(f, GNames, LNames, Choices) ==
    {[locals |-> <<l>>, globals |-> <<g>>] :
        l \in Blocks(f, LNames, Choices), g \in Blocks(f, GNames, Choices)}

\* The files of a chain of two: at most one reference per expression.
ChainNames == {"a", "b"}
ChainRefs == {<<global, n>> : n \in ChainNames} \cup LocalRefs
ChainChoices == ({{}} \cup {{r} : r \in ChainRefs}) \X {"ok"}

\* A single file whose expressions may fail to evaluate and may read a root
\* that is neither local, global nor include.
dependency == "dependency"
FaultyRefs == {<<global, "a">>, <<local, "x">>, <<dependency, "a">>}
FaultyChoices == RefSets(FaultyRefs) \X {"ok", "error"}

\* The chains ParseConfigVariables is given, their locals named LNames.
GraphInputs(LNames) ==
    {<<f>> : f \in OneFile(1, GlobalNames, LNames, GraphChoices)}
    \cup {<<c, p>> : c \in OneFile(1, ChainNames, LNames, ChainChoices),
                     p \in OneFile(2, ChainNames, LNames, ChainChoices)}
    \cup {<<f>> : f \in OneFile(1, ChainNames, LNames, FaultyChoices)}

InitGraph ==
    /\ files \in GraphInputs(LocalNames)
    /\ globalsFilename = ""
    /\ pc = "ParseConfigVariables"
    /\ ret = NoRet
    /\ SweepInit
    /\ GraphInit
    /\ ParserInit

NextGraph ==
    \/ ParseConfigVariablesBegin
    \/ WalkStep
    \/ ParseConfigVariablesParent
    \/ ParseConfigVariablesEnd

SpecGraph == InitGraph /\ [][NextGraph]_vars

----------------------------------------------------------------------------
(* walkBreadthFirst on any graph: the two passes of evaluateVariables *)

\* The vertices of the graphs walked: the root, a global and a local, whose
\* expressions read nothing and evaluate or fail.
WalkVertices(kinds) ==
    {rootVertex,
     variableVertex(1, global, "a", [refs |-> {}, vars |-> <<>>, kind |-> kinds[1],
                                     k |-> K(1, "a")]),
     variableVertex(1, local, "x", [refs |-> {}, vars |-> <<>>, kind |-> kinds[2],
                                    k |-> K(1, "x")])}

\* Every graph over these vertices: any set of edges, with cycles, edges
\* from a vertex to itself and edges into the root.
WalkGraphs(Kinds) ==
    UNION {{[vertices |-> WalkVertices(kinds), edges |-> E] :
               E \in SUBSET (WalkVertices(kinds) \X WalkVertices(kinds))} :
           kinds \in Kinds \X Kinds}

\* evaluateVariables(false) is about to walk the graph from the root.
InitWalk ==
    /\ files = <<NoFile>>
    /\ globalsFilename = ""
    /\ pc = "pass1"
    /\ ret = NoRet
    /\ SweepInit
    /\ ParserInit
    /\ graph \in WalkGraphs({"ok", "error"})
    /\ vertices = EmptyMap
    /\ values = EmptyMap
    /\ localVertices = <<EmptyMap, EmptyMap>>
    /\ localValues = <<EmptyMap, EmptyMap>>
    /\ evaluateGlobals = FALSE
    /\ queue = <<rootVertex>>
    /\ visited = {}
    /\ diags = <<>>
    /\ calls = EmptyMap

NextWalk ==
    \/ WalkStep
    \/ ParseConfigVariablesParent
    \/ ParseConfigVariablesEnd

\* The loop of walkBreadthFirst is sequential code with nothing to wait for:
\* as long as a step is possible, one is taken.
SpecWalk == InitWalk /\ [][NextWalk]_vars /\ WF_vars(NextWalk)

----------------------------------------------------------------------------
(* The chain of files as the Binding Catalog sees it *)

FileLocals(f) == IF Len(files[f].locals) = 1 THEN files[f].locals[1] ELSE EmptyMap
FileGlobals(f) == IF Len(files[f].globals) = 1 THEN files[f].globals[1] ELSE EmptyMap

\* The bindings of the chain: <<file, root, name>>.
AllBindings ==
    {<<f, local, n>> : f \in 1 .. Len(files), n \in LocalNames} \cup
    {<<f, global, n>> : f \in 1 .. Len(files), n \in GlobalNames}

Bindings ==
    {b \in AllBindings :
        b[3] \in DOMAIN (IF b[2] = local THEN FileLocals(b[1]) ELSE FileGlobals(b[1]))}

ExprOf(b) == IF b[2] = local THEN FileLocals(b[1])[b[3]] ELSE FileGlobals(b[1])[b[3]]

\* The bindings a reference of b resolves to: a local of the same file, a
\* global of any file of the chain.
Resolve(b, r) ==
    {d \in Bindings : d[2] = r[1] /\ d[3] = r[2] /\ (r[1] = local => d[1] = b[1])}

Deps(b) == UNION {Resolve(b, r) : r \in ExprOf(b).refs}

\* The bindings that can be ordered after the bindings they reference.
RECURSIVE Grounded(_)
Grounded(S) ==
    LET next == {b \in Bindings : Deps(b) \subseteq S}
    IN IF next = S THEN S ELSE Grounded(next)

\* No global name is defined by two files of the chain.
NoDuplicateGlobal ==
    \A b, d \in Bindings : (b[2] = global /\ d[2] = global /\ b[3] = d[3]) => b = d

\* A chain the spec accepts: one block of each kind per file, every reference
\* resolves, no global is defined twice, and the references have no cycle.
WellFormed ==
    /\ \A f \in 1 .. Len(files) : Len(files[f].locals) <= 1 /\ Len(files[f].globals) <= 1
    /\ \A b \in Bindings : \A r \in ExprOf(b).refs : Resolve(b, r) # {}
    /\ NoDuplicateGlobal
    /\ Grounded({}) = Bindings

\* As WellFormed, but the references have a cycle.
Cyclic ==
    /\ \A f \in 1 .. Len(files) : Len(files[f].locals) <= 1 /\ Len(files[f].globals) <= 1
    /\ \A b \in Bindings : \A r \in ExprOf(b).refs : Resolve(b, r) # {}
    /\ NoDuplicateGlobal
    /\ Grounded({}) # Bindings

\* The bindings b references, directly or through other bindings.
RECURSIVE DepsClosure(_)
DepsClosure(S) ==
    LET next == S \cup UNION {Deps(d) : d \in S}
    IN IF next = S THEN S ELSE DepsClosure(next)

OnCycle(b) == b \in DepsClosure(Deps(b))

\* The stored value of a binding, when it has one.
HasStored(b) ==
    IF b[2] = global THEN b[3] \in DOMAIN values ELSE b[3] \in DOMAIN localValues[b[1]]
Stored(b) == IF b[2] = global THEN values[b[3]] ELSE localValues[b[1]][b[3]]

\* The binding a vertex of the graph stands for.
BindingOf(v) == <<v.Evaluator, v.Type, v.Name>>

InWalk == pc \in {"pass1", "pass2"} /\ Len(queue) > 0

----------------------------------------------------------------------------
(* Properties of the Graph Evaluator *)

\* C3: cross-file forward reference.  When a run over a child and its parent
\* returns success, every binding of the child that references a global the
\* child does not define and the parent does has been evaluated, and that
\* global holds the value of the parent's expression.
C3_CrossFileForwardReference ==
    (pc = "returned" /\ ret.err = "" /\ Len(files) = 2 /\ WellFormed) =>
        \A b \in Bindings : \A r \in ExprOf(b).refs :
            (/\ b[1] = 1 /\ r[1] = global
             /\ r[2] \notin DOMAIN FileGlobals(1)
             /\ r[2] \in DOMAIN FileGlobals(2)) =>
                /\ r[2] \in DOMAIN values
                /\ LET p == ExprValue(FileGlobals(2)[r[2]],
                                      convertValuesToVariables(2, values, localValues))
                   IN p.ok /\ values[r[2]] = p.val
                /\ HasStored(b)
                /\ LET c == ExprValue(ExprOf(b),
                                      convertValuesToVariables(1, values, localValues))
                   IN c.ok /\ Stored(b) = c.val

\* C4: dependency order.  In a well-formed single file, whenever the walk
\* invokes the expression of a binding, every binding it references has a
\* stored value.
C4_DependencyOrder ==
    [][(InWalk /\ WellFormed /\ Len(files) = 1 /\ calls' # calls) =>
          \A d \in Deps(BindingOf(Head(queue))) : HasStored(d)]_vars

\* C5: evaluate-once lifecycle.  In a well-formed chain, visiting a binding
\* that already has a stored value does not invoke its expression again.
C5_EvaluateOnce ==
    [][(InWalk /\ WellFormed
        /\ Head(queue) \notin visited
        /\ Head(queue).Type \in {local, global}
        /\ HasStored(BindingOf(Head(queue)))) => calls' = calls]_vars

\* The single file has no locals and its globals reference no local.
NoLocalReferences ==
    /\ Len(files) = 1
    /\ DOMAIN FileLocals(1) = {}
    /\ \A n \in DOMAIN FileGlobals(1) : \A r \in FileGlobals(1)[n].refs : r[1] = global

\* C6: engine agreement.  On a single file with no local references,
\* ParseConfigVariables fails exactly when evaluateGlobalsBlock fails, and on
\* success both give the same global values.
C6_EngineAgreement ==
    (pc = "returned" /\ NoLocalReferences) =>
        LET s == evaluateGlobalsBlock(files[1], globalsFilename, NameOrder(DOMAIN FileGlobals(1))).ret
        IN /\ (s.err # "") <=> (ret.err # "")
           /\ (s.err = "" /\ ret.err = "") => ret.results[1][global] = s.vals

\* The vertices of S in the order of their expressions.
RECURSIVE ExprOrder(_)
ExprOrder(S) ==
    IF S = {} THEN <<>>
    ELSE LET v == CHOOSE v \in S : \A w \in S : v.Expr.k <= w.Expr.k
         IN <<v>> \o ExprOrder(S \ {v})

\* walkBreadthFirst with the callback of evaluateVariables, when DownEdges
\* lists the dependents of a vertex in the order of their expressions.
RECURSIVE walkBreadthFirst(_, _, _, _, _, _)
walkBreadthFirst(g, q, seen, evalGlobals, vals, lvals) ==
    IF q = <<>> THEN [values |-> vals, localValues |-> lvals]
    ELSE IF Head(q) \in seen
    THEN walkBreadthFirst(g, Tail(q), seen, evalGlobals, vals, lvals)
    ELSE LET r == visit(Head(q), evalGlobals, vals, lvals)
         IN walkBreadthFirst(g,
                IF r.cont THEN Tail(q) \o ExprOrder(DownEdges(g, Head(q))) ELSE Tail(q),
                seen \cup {Head(q)}, evalGlobals, r.values, r.localValues)

\* ParseConfigVariables on the chain fs, with that order of the dependents.
ParseConfigVariables(fs) ==
    LET d1 == decodeConfig(1, fs[1], [vertices |-> {rootVertex}, edges |-> {}],
                           EmptyMap, EmptyMap)
        w1 == walkBreadthFirst(d1.graph, <<rootVertex>>, {}, FALSE, EmptyMap,
                               <<EmptyMap, EmptyMap>>)
        d2 == IF Len(fs) > 1
              THEN decodeConfig(2, fs[2], d1.graph, d1.vertices, EmptyMap)
              ELSE [d1 EXCEPT !.err = ""]
        w2 == walkBreadthFirst(d2.graph, <<rootVertex>>, {}, TRUE, w1.values,
                               w1.localValues)
    IN IF d1.err # "" THEN ReturnErr(d1.err)
       ELSE IF d2.err # "" THEN ReturnErr(d2.err)
       ELSE ReturnResults([e \in 1 .. Len(fs) |->
                              toResult(e, w2.values, w2.localValues)])

\* C7: determinism of the Graph Evaluator.  On a well-formed single file,
\* every run returns what the run that lists dependents in expression order
\* returns.
C7_GraphDeterministic ==
    (pc = "returned" /\ WellFormed /\ Len(files) = 1) =>
        ret = ParseConfigVariables(files)

\* The vertices the graph holds: its vertex set and the ends of its edges.
GraphVertices == graph.vertices \cup {e[1] : e \in graph.edges} \cup {e[2] : e \in graph.edges}

\* C10: one binding per global name.  On a well-formed chain, the graph holds
\* at most one vertex per global name: the vertex an edge was drawn from when
\* the name had no definition is the vertex that later carries its expression.
C10_OneVertexPerGlobal ==
    WellFormed =>
        \A v, w \in GraphVertices :
            (v.Type = global /\ w.Type = global /\ v.Name = w.Name) => v = w

\* C11: cycle rejection.  When the bindings of the chain have a reference
\* cycle, the run returns the cycle error of the validation and no result, and
\* no binding on the cycle ever has a stored value.
C11_CycleRejected ==
    Cyclic =>
        /\ \A b \in Bindings : OnCycle(b) => ~HasStored(b)
        /\ pc = "returned" =>
              (ret.err \in {"Cycle", "Self reference"} /\ ret.results = <<>>)

\* Some binding references a global name that no file of the chain defines.
UndefinedGlobalRef ==
    \E b \in Bindings : \E r \in ExprOf(b).refs : r[1] = global /\ Resolve(b, r) = {}

\* C13: unresolved global.  When a referenced global name is defined by no
\* file of the chain, the run does not return success.
C13_UnresolvedGlobal ==
    (pc = "returned" /\ UndefinedGlobalRef) => ret.err # ""

\* The expression of binding b was invoked and b has no stored value: an
\* evaluation of b failed.
Failed(b) == ExprOf(b).k \in DOMAIN calls /\ ~HasStored(b)

\* C14: expression failure is reported.  When the evaluation of a visited
\* binding has failed, ParseConfigVariables returns an error and no result.
C14_ExpressionFailureReported ==
    (pc = "returned" /\ \E b \in Bindings : Failed(b)) =>
        (ret.err # "" /\ ret.results = <<>>)

\* Some binding references a local name that its own file does not define.
UndefinedLocalRef ==
    \E b \in Bindings : \E r \in ExprOf(b).refs : r[1] = local /\ Resolve(b, r) = {}

\* C15: undefined local reference.  When a binding references a local that
\* its file does not define, the run returns an error.
C15_UndefinedLocalReference ==
    (pc = "returned" /\ UndefinedLocalRef) => ret.err # ""

\* Some binding references a root other than local, global and include.
UnsupportedRootRef ==
    \E b \in Bindings : \E r \in ExprOf(b).refs : r[1] \notin {local, global, include}

\* C16: unsupported root reference.  When a binding references a root other
\* than local, global and include, the run returns an error.
C16_UnsupportedRootReference ==
    (pc = "returned" /\ UnsupportedRootRef) => ret.err # ""

\* As WellFormed, but some global name is defined by both files.
DuplicateGlobal ==
    /\ \A f \in 1 .. Len(files) : Len(files[f].locals) <= 1 /\ Len(files[f].globals) <= 1
    /\ \A b \in Bindings : \A r \in ExprOf(b).refs : Resolve(b, r) # {}
    /\ ~NoDuplicateGlobal
    /\ Grounded({}) = Bindings

\* C23: duplicate global definition.  When two files of the chain define the
\* same global name, the run does not return success.
C23_DuplicateGlobalDefinition ==
    (pc = "returned" /\ DuplicateGlobal) => ret.err # ""

\* The vertex the walk is about to hand to evaluateVariable.
Visiting(v) == InWalk /\ v = Head(queue) /\ v \notin visited /\ v # rootVertex

\* Every local vertex of a file belongs to that file's evaluator and carries
\* that file's expression.
OwnLocalVertices ==
    \A f \in 1 .. Len(files) : \A n \in DOMAIN localVertices[f] :
        /\ n \in DOMAIN FileLocals(f)
        /\ localVertices[f][n] = variableVertex(f, local, n, FileLocals(f)[n])

\* The step evaluates a binding of file F: no other file's local map changes,
\* and what is stored in F's map is the value of the expression over F's
\* local values and the shared global values.
OwnLocalValues ==
    \A v \in graph.vertices :
        Visiting(v) =>
            LET F == v.Evaluator
                own == [r \in {local, global} |-> IF r = local THEN localValues[F] ELSE values]
                val == ExprValue(v.Expr, own)
            IN /\ \A f \in 1 .. 2 : f # F => localValues'[f] = localValues[f]
               /\ localValues'[F] # localValues[F] =>
                      /\ v.Type = local
                      /\ val.ok
                      /\ localValues'[F] = MapSet(localValues[F], v.Name, val.val)
               /\ values' # values =>
                      /\ v.Type = global
                      /\ val.ok
                      /\ values' = MapSet(values, v.Name, val.val)

\* C24: local scoping.  A binding of file F is evaluated over F's local
\* values only; locals of the same name in two files keep a vertex and a value
\* each, and evaluating a binding of one file neither reads nor writes the
\* local map of another file.
C24_LocalScoping == []OwnLocalVertices /\ [][OwnLocalValues]_vars

\* Child and parent both define local x, the parent's global a reads local.x,
\* and the run has returned the two values of x and the parent's a.
C24_Witness ==
    /\ pc = "returned" /\ ret.err = "" /\ Len(files) = 2
    /\ "x" \in DOMAIN FileLocals(1) /\ "x" \in DOMAIN FileLocals(2)
    /\ "a" \in DOMAIN FileGlobals(2) /\ FileGlobals(2)["a"].refs = {<<local, "x">>}
    /\ "a" \notin DOMAIN FileGlobals(1)
    /\ "x" \in DOMAIN ret.results[1][local] /\ ret.results[1][local]["x"] = K(1, "x")
    /\ "x" \in DOMAIN ret.results[2][local] /\ ret.results[2][local]["x"] = K(2, "x")
    /\ "a" \in DOMAIN ret.results[2][global]
    /\ ret.results[2][global]["a"] = K(2, "a") + K(2, "x")

\* The vertices reached from S by edges that leave a vertex which is not a
\* global: the vertices with a path from S that no global vertex interrupts.
RECURSIVE ReachPastLocals(_, _)
ReachPastLocals(g, S) ==
    LET next == S \cup UNION {DownEdges(g, v) : v \in {u \in S : u.Type # global}}
    IN IF next = S THEN S ELSE ReachPastLocals(g, next)

\* In a locals-only pass: the global map is empty as the pass found it, no
\* expression of a global vertex has been called, and every vertex visited
\* or queued has a path from the root with no global vertex before it.
GlobalsUntouched ==
    (pc = "pass1" /\ ~evaluateGlobals) =>
        /\ values = EmptyMap
        /\ \A v \in graph.vertices : v.Type = global => v.Expr.k \notin DOMAIN calls
        /\ visited \cup Range(queue) \subseteq ReachPastLocals(graph, {rootVertex})

\* A step of a locals-only pass leaves the global map as it is, and a step
\* that visits a global vertex calls nothing and queues nothing.
GlobalsStop ==
    (pc = "pass1" /\ ~evaluateGlobals) =>
        /\ values' = values
        /\ (InWalk /\ Head(queue).Type = global) =>
              (calls' = calls /\ queue' = Tail(queue) /\ localValues' = localValues)

\* C27: pass 1 leaves globals untouched.  During a locals-only pass no
\* expression of a global binding is invoked and the shared global map does
\* not change; a global vertex returns stop, so a vertex that every path from
\* the root reaches through a global vertex is not visited in that pass.
C27_Pass1LeavesGlobals == []GlobalsUntouched /\ [][GlobalsStop]_vars

\* Pass 1 has ended on a = const, x = global.a: a was visited and returned
\* stop, x behind it was not visited, and nothing has a value.
C27_Witness ==
    /\ pc = "pass1" /\ queue = <<>>
    /\ \E a \in visited, x \in graph.vertices \ visited :
          /\ a.Type = global /\ a.Expr.refs = {}  /\ a.Expr.kind = "ok"
          /\ x.Type = local /\ UpEdges(graph, x) = {a}
    /\ values = EmptyMap /\ calls = EmptyMap

\* The walk of pass 1 has ended with no diagnostic: evaluateVariables(false)
\* returns nil.
Pass1ReturnsNil == pc = "pass1" /\ queue = <<>> /\ Len(diags) = 0

\* The local bindings of the files parsed so far (the child) that reference
\* no global binding, directly or through other bindings.
GlobalFreeLocals ==
    {b \in Bindings :
        /\ b[1] = 1 /\ b[2] = local
        /\ \A d \in DepsClosure({b}) : \A r \in ExprOf(d).refs : r[1] # global}

\* C28: pass 1 coverage.  When pass 1 returns without error, every local
\* binding of the files parsed so far whose transitive references include no
\* global binding has a value in the local map of its file.
C28_Pass1Coverage ==
    Pass1ReturnsNil => \A b \in GlobalFreeLocals : HasStored(b)

\* The bindings whose expression has failed, and the bindings that depend on
\* none of them, directly or through other bindings.
FailedBindings == {b \in Bindings : Failed(b)}
Unaffected == {b \in Bindings : DepsClosure({b}) \cap FailedBindings = {}}

\* The walk of pass 2 has ended.
Pass2Ended == pc = "pass2" /\ queue = <<>>

\* C29: failure isolation.  When the expression of a binding has failed
\* during a pass over a well-formed chain, every binding that does not
\* depend on a failed one, directly or through other bindings, has been
\* evaluated by the end of that pass.
C29_FailureIsolation ==
    (Pass2Ended /\ WellFormed /\ FailedBindings # {}) =>
        \A b \in Unaffected : HasStored(b)

\* What the callback answers for a vertex whose expression reads nothing.
Continues(v) ==
    v = rootVertex \/ (v.Expr.kind = "ok" /\ (v.Type = local \/ (v.Type = global /\ evaluateGlobals)))

\* Every vertex visited or queued, other than the root, has a direct
\* predecessor that was visited and answered continue; no expression has
\* been called more often than passes have begun.
VisitedBelowContinue ==
    InWalk \/ (pc \in {"pass1", "pass2"} /\ queue = <<>>) =>
        /\ \A v \in (visited \cup Range(queue)) \ {rootVertex} :
              \E u \in visited : <<u, v>> \in graph.edges /\ Continues(u)
        /\ \A k \in DOMAIN calls : calls[k] <= (IF pc = "pass1" THEN 1 ELSE 2)

\* A step of the walk hands the head of the queue to the callback only when
\* it has not been visited in this pass, and then marks it visited; a vertex
\* visited before is dropped, and nothing is called or stored for it.
VisitsOnce ==
    InWalk =>
        IF Head(queue) \in visited
        THEN /\ queue' = Tail(queue)
             /\ UNCHANGED <<visited, values, localValues, calls>>
        ELSE /\ visited' = visited \cup {Head(queue)}
             /\ \A k \in DOMAIN calls' : k # Head(queue).Expr.k =>
                   (k \in DOMAIN calls /\ calls'[k] = calls[k])

\* C30: walk termination and single visit.  On every graph walkBreadthFirst
\* ends, the callback is invoked at most once for a vertex in a pass, and a
\* vertex other than the root is visited only when a direct predecessor was
\* visited and answered continue.
C30_WalkTermination ==
    /\ <>(pc = "returned")
    /\ []VisitedBelowContinue
    /\ [][VisitsOnce]_vars

\* Both passes have ended on a graph with a cycle between a and x, an edge
\* from a to itself and an edge back into the root: each expression was
\* called once in every pass that evaluates it.
C30_Witness ==
    /\ pc = "returned" /\ ret.err = ""
    /\ \E a, x \in graph.vertices :
          /\ a.Type = global /\ x.Type = local
          /\ {<<rootVertex, x>>, <<x, a>>, <<a, x>>, <<a, a>>, <<a, rootVertex>>}
                 \subseteq graph.edges
          /\ a.Expr.k \in DOMAIN calls /\ calls[a.Expr.k] = 1
          /\ x.Expr.k \in DOMAIN calls /\ calls[x.Expr.k] = 2

\* ParseConfigVariables has returned its results without an error.
ReturnedResults == pc = "returned" /\ ret.done /\ ret.err = ""

\* The returned results hold a value for binding b.
InResults(b) ==
    /\ b[1] \in DOMAIN ret.results
    /\ b[3] \in DOMAIN ret.results[b[1]][b[2]]

\* C33: completeness on success.  Whenever ParseConfigVariables returns
\* without error, every local and global binding declared in a file of the
\* chain has a value in the returned results.
C33_CompleteOnSuccess ==
    ReturnedResults => \A b \in Bindings : InResults(b)

----------------------------------------------------------------------------
(* ConfigParser: file names and include paths *)

\* A chain of ConfigParsers is followed up to MaxDepth parsers.
MaxDepth == 3

\* A file name is a directory (its segments from the root) and a base name.
Segments == {"live", "app"}
BaseNames == {"t.hcl", "p.hcl"}
LeafFilename == [dir |-> <<"live", "app">>, base |-> "t.hcl"]

\* The include block of a file: none, or its path, which is empty, relative
\* (up times "..", then dir, then base) or absolute.
NoInclude == [kind |-> "none", up |-> 0, dir |-> <<>>, base |-> ""]
IncludePaths ==
    {[kind |-> "empty", up |-> 0, dir |-> <<>>, base |-> ""]}
    \cup {[kind |-> "rel", up |-> u, dir |-> <<>>, base |-> b] : u \in 0 .. 1, b \in BaseNames}
    \cup {[kind |-> "abs", up |-> 0, dir |-> <<"live">>, base |-> "p.hcl"]}

\* What a file name holds on disk: nothing, or a file and its include block.
FileContents ==
    {[missing |-> TRUE, include |-> NoInclude]}
    \cup {[missing |-> FALSE, include |-> i] : i \in IncludePaths \cup {NoInclude}}

\* filepath.Dir, filepath.IsAbs and util.JoinPath on these paths.
Dir(filename) == filename.dir
IsAbs(path) == path.kind = "abs"
JoinPath(dir, path) ==
    LET keep == IF path.up >= Len(dir) THEN 0 ELSE Len(dir) - path.up
    IN [dir |-> SubSeq(dir, 1, keep) \o path.dir, base |-> path.base]

\* The empty string as a file name.
NoFilename == [dir |-> <<>>, base |-> ""]

\* The Context.Path of a ConfigParser before SetPaths.
NoPath == [file |-> NoFilename, root |-> NoFilename, parent |-> NoFilename,
           parents |-> <<>>, child |-> NoFilename, children |-> <<>>, level |-> -1]

\* cp.Eval before newConfigEvaluator: no evaluator.  globals points to the
\* evaluatorGlobals the evaluator shares, named by the level of the parser
\* whose evaluator made it (0: none); values is the value map of the
\* evaluatorGlobals this evaluator made.
NoEval == [globals |-> 0, localValues |-> EmptyMap, values |-> EmptyMap]

\* Context.Locals or Context.Globals: nil, or a pointer to a record.
NotSet == [set |-> FALSE, val |-> EmptyMap]
PointerTo(val) == [set |-> TRUE, val |-> val]

\* NewConfigParser, with the Filename and Options it is then given.  Parent
\* and Child point to a parser by its place in parsers; 0 is nil.
NewConfigParser(filename, configPath) ==
    [Filename |-> filename,
     Options |-> [TerragruntConfigPath |-> configPath],
     File |-> [missing |-> TRUE, include |-> NoInclude],
     Path |-> NoPath,
     Parent |-> 0,
     Child |-> 0,
     Eval |-> NoEval,
     Context |-> [Locals |-> NotSet, Globals |-> NotSet]]

\* GetIncludeFilename without its test for an empty path.
GetIncludeFilenameNoCheck(cp, includedConfig) ==
    IF ~IsAbs(includedConfig)
    THEN [err |-> "",
          filename |-> JoinPath(Dir(cp.Options.TerragruntConfigPath), includedConfig)]
    ELSE [err |-> "", filename |-> [dir |-> includedConfig.dir, base |-> includedConfig.base]]

\* ConfigParser.GetIncludeFilename
GetIncludeFilename(cp, includedConfig) ==
    IF includedConfig.kind = "empty"
    THEN [err |-> "IncludedConfigMissingPath", filename |-> cp.Filename]
    ELSE IF ~IsAbs(includedConfig)
    THEN [err |-> "",
          filename |-> JoinPath(Dir(cp.Options.TerragruntConfigPath), includedConfig)]
    ELSE [err |-> "", filename |-> [dir |-> includedConfig.dir, base |-> includedConfig.base]]

\* The TerragruntConfigPath of the Options CreateParent gives the parent:
\* config_parser.go shares the child's Options, the later source copies them
\* and sets the path to the parent's file name.
ParentConfigPath(cp, filename) ==
    IF version = "config_parser.go" THEN cp.Options.TerragruntConfigPath ELSE filename

\* getLevel, rootPath, parentPaths, childPaths of parsers[l], each following
\* the Parent or the Child pointers as the source does.
RECURSIVE getLevel(_)
getLevel(l) == IF parsers[l].Parent # 0 THEN getLevel(parsers[l].Parent) + 1 ELSE 0

RECURSIVE rootPath(_)
rootPath(l) == IF parsers[l].Parent # 0 THEN rootPath(parsers[l].Parent) ELSE parsers[l].Filename

parentPath(l) == IF parsers[l].Parent # 0 THEN parsers[parsers[l].Parent].Filename ELSE NoFilename
childPath(l) == IF parsers[l].Child # 0 THEN parsers[parsers[l].Child].Filename ELSE NoFilename

RECURSIVE parentPaths(_)
parentPaths(l) ==
    IF parsers[l].Parent # 0
    THEN Append(parentPaths(parsers[l].Parent), parsers[parsers[l].Parent].Filename)
    ELSE <<>>

\* childPaths with the paths of the child's children put first.
RECURSIVE childPathsLeafFirst(_)
childPathsLeafFirst(l) ==
    IF parsers[l].Child # 0
    THEN Append(childPathsLeafFirst(parsers[l].Child), parsers[parsers[l].Child].Filename)
    ELSE <<>>

RECURSIVE childPaths(_)
childPaths(l) ==
    IF parsers[l].Child # 0
    THEN <<parsers[parsers[l].Child].Filename>> \o childPaths(parsers[l].Child)
    ELSE <<>>

\* ConfigParser.SetPaths of parsers[l]
SetPaths(l) ==
    [file |-> parsers[l].Filename, root |-> rootPath(l), parent |-> parentPath(l),
     parents |-> parentPaths(l), child |-> childPath(l), children |-> childPaths(l),
     level |-> getLevel(l)]

----------------------------------------------------------------------------
(* ConfigParser.Process: reading the chain *)

\* ParseConfigFile of parsers[level]: the file is read and parsed.  A file
\* name read before holds what it held then.
ParseConfigFile ==
    /\ pc = "ParseConfigFile"
    /\ LET filename == parsers[level].Filename
       IN \E content \in (IF filename \in DOMAIN disk THEN {disk[filename]}
                          ELSE FileContents) :
            /\ disk' = MapSet(disk, filename, content)
            /\ IF content.missing
               THEN /\ ret' = ReturnErr("ReadFile")
                    /\ pc' = "returned"
                    /\ UNCHANGED parsers
               ELSE /\ parsers' = [parsers EXCEPT ![level].File = content]
                    /\ pc' = "ProcessIncludes"
                    /\ UNCHANGED ret
    /\ UNCHANGED <<files, globalsFilename, sweepVars, graphVars, version, level, log>>

\* ProcessIncludes of parsers[level] up to its call of Parent.ParseConfigFile
\* (through CreateParent), or up to SetPaths when the file includes nothing.
ProcessIncludes ==
    /\ pc = "ProcessIncludes"
    /\ LET cp == parsers[level]
           include1 == cp.File.include
           name == GetIncludeFilename(cp, include1)
       IN IF include1.kind = "none"
          THEN /\ pc' = "SetPaths"
               /\ UNCHANGED <<ret, parsers, level>>
          ELSE /\ level < MaxDepth
               /\ IF name.err # ""
                  THEN /\ ret' = ReturnErr(name.err)
                       /\ pc' = "returned"
                       /\ parsers' = Append([parsers EXCEPT ![level].Parent = level + 1],
                                        NewConfigParser(NoFilename, NoFilename))
                       /\ UNCHANGED level
                  ELSE /\ parsers' = Append([parsers EXCEPT ![level].Parent = level + 1],
                               [NewConfigParser(name.filename,
                                                ParentConfigPath(cp, name.filename))
                                    EXCEPT !.Child = IF version = "config_parser.go"
                                                     THEN 0 ELSE level])
                       /\ level' = level + 1
                       /\ pc' = "ParseConfigFile"
                       /\ UNCHANGED ret
    /\ UNCHANGED <<files, globalsFilename, sweepVars, graphVars, version, disk, log>>

\* The rest of ProcessIncludes of parsers[level], after its parent (if any)
\* has processed its includes: SetPaths in the later source, and the return
\* to the child's CreateParent or to Process.
ProcessIncludesReturn ==
    /\ pc = "SetPaths"
    /\ parsers' = IF version = "config_parser.go" THEN parsers
                  ELSE [parsers EXCEPT ![level].Path = SetPaths(level)]
    /\ IF level > 1
       THEN /\ level' = level - 1
            /\ UNCHANGED pc
       ELSE /\ pc' = "PreprocessVariables"
            /\ UNCHANGED level
    /\ UNCHANGED <<files, globalsFilename, ret, sweepVars, graphVars, version, disk, log>>

----------------------------------------------------------------------------
(* ConfigParser.Process: ProcessVariables and Finalize *)

\* A call on parsers[l].Eval, or a step of Finalize on parsers[l].
Call(name, l) == [call |-> name, level |-> l, validate |-> FALSE]

\* The calls made up to the first one that fails; all of them when none does.
UpTo(callSeq, failAt) ==
    SubSeq(callSeq, 1, IF failAt <= Len(callSeq) THEN failAt ELSE Len(callSeq))

\* The methods of cp.Eval return an error or nil: failAt is the call that fails.
Outcome(callSeq, failAt) == IF failAt <= Len(callSeq) THEN "failed" ELSE "ok"

\* Process returns the TerragruntConfig.
ReturnConfig == [NoRet EXCEPT !.done = TRUE, !.hasVals = TRUE]

\* newConfigEvaluator(cp) and setGlobals(g) of parsers[l]: the evaluator
\* keeps the evaluatorGlobals it is given, and makes its own when given nil.
setGlobals(ps, l, g) ==
    [ps EXCEPT ![l].Eval = [NoEval EXCEPT !.globals = IF g = 0 THEN l ELSE g]]

\* The value map of the evaluatorGlobals parsers[l].Eval points to.
GlobalValues(ps, l) == ps[ps[l].Eval.globals].Eval.values

\* The local maps evaluateLocals may leave in parsers[l].Eval: values are
\* only added, and a value of file l is K(l, name).
LocalOutcomes(ps, l) ==
    {m \in {[n \in D |-> K(l, n)] : D \in SUBSET LocalNames} :
        DOMAIN ps[l].Eval.localValues \subseteq DOMAIN m}

\* The global maps evaluateAllVariables may leave in the evaluatorGlobals.
GlobalOutcomes(ps, l) ==
    {m \in {[n \in D |-> K(1, n)] : D \in SUBSET {"a"}} :
        DOMAIN GlobalValues(ps, l) \subseteq DOMAIN m}

\* parsers[l].Eval.evaluateLocals has left the local map lv.
evaluateLocals(ps, l, lv) == [ps EXCEPT ![l].Eval.localValues = lv]

\* parsers[l].Eval.evaluateAllVariables has left the local map lv and the
\* global map gv.
evaluateAllVariables(ps, l, lv, gv) ==
    [evaluateLocals(ps, l, lv) EXCEPT ![ps[l].Eval.globals].Eval.values = gv]

\* SetVariables of parsers[l] after toResult: Context.Locals and
\* Context.Globals point to the two records of the result.
SetContext(ps, l) ==
    LET variables == toResult(l, GlobalValues(ps, l),
                              [i \in 1 .. Len(ps) |-> ps[i].Eval.localValues])
    IN [ps EXCEPT ![l].Context = [Locals |-> PointerTo(variables[local]),
                                  Globals |-> PointerTo(variables[global])]]

\* SetVariables that does not go on to the parent.
SetVariablesOfLeaf(ps, n) == IF n = 0 THEN ps ELSE SetContext(ps, 1)

\* SetVariables of parsers[l], then of its parent, for the first n parsers.
RECURSIVE SetVariablesUpTo(_, _)
SetVariablesUpTo(ps, n) == IF n = 0 THEN ps ELSE SetContext(SetVariablesUpTo(ps, n - 1), n)

\* PreprocessVariables of parsers[level], up to its call of
\* Parent.PreprocessVariables: decodeVariables, then evaluateLocals.
PreprocessVariables ==
    /\ pc = "PreprocessVariables"
    /\ LET callSeq == <<Call("decodeVariables", level), Call("evaluateLocals", level)>>
           globals1 == IF level = 1 THEN 0 ELSE parsers[level - 1].Eval.globals
           made == setGlobals(parsers, level, globals1)
       IN \E failAt \in 1 .. Len(callSeq) + 1 :
            /\ log' = log \o UpTo(callSeq, failAt)
            /\ IF Outcome(callSeq, failAt) = "failed"
               THEN /\ ret' = ReturnErr("Eval")
                    /\ pc' = "returned"
                    /\ parsers' = made
                    /\ UNCHANGED level
               ELSE /\ UNCHANGED ret
                    /\ \E lv \in LocalOutcomes(made, level) :
                           parsers' = evaluateLocals(made, level, lv)
                    /\ IF level < Len(parsers)
                       THEN level' = level + 1 /\ UNCHANGED pc
                       ELSE pc' = "processEdges" /\ UNCHANGED level
    /\ UNCHANGED <<files, globalsFilename, sweepVars, graphVars, version, disk>>

\* The rest of PreprocessVariables of parsers[level]: processEdges, which
\* validates the graph for the leaf only.
ProcessEdges ==
    /\ pc = "processEdges"
    /\ LET callSeq == <<[Call("processEdges", level) EXCEPT !.validate = (level = 1)]>>
       IN \E failAt \in 1 .. Len(callSeq) + 1 :
            /\ log' = log \o UpTo(callSeq, failAt)
            /\ IF Outcome(callSeq, failAt) = "failed"
               THEN /\ ret' = ReturnErr("Eval")
                    /\ pc' = "returned"
                    /\ UNCHANGED level
               ELSE /\ UNCHANGED ret
                    /\ IF level > 1
                       THEN level' = level - 1 /\ UNCHANGED pc
                       ELSE pc' = "EvaluateVariables" /\ level' = Len(parsers)
    /\ UNCHANGED <<files, globalsFilename, sweepVars, graphVars, version, disk, parsers>>

\* EvaluateVariables of parsers[level], after its parent's: evaluateLocals
\* for an ancestor (localsOnly), evaluateAllVariables for the leaf.
EvaluateVariables ==
    /\ pc = "EvaluateVariables"
    /\ LET callSeq == <<Call(IF level > 1 THEN "evaluateLocals" ELSE "evaluateAllVariables",
                             level)>>
       IN \E failAt \in 1 .. Len(callSeq) + 1 :
            /\ log' = log \o UpTo(callSeq, failAt)
            /\ IF Outcome(callSeq, failAt) = "failed"
               THEN /\ ret' = ReturnErr("Eval")
                    /\ pc' = "returned"
                    /\ UNCHANGED <<level, parsers>>
               ELSE /\ UNCHANGED ret
                    /\ \E lv \in LocalOutcomes(parsers, level),
                          gv \in GlobalOutcomes(parsers, level) :
                           parsers' = IF level > 1
                                      THEN evaluateLocals(parsers, level, lv)
                                      ELSE evaluateAllVariables(parsers, level, lv, gv)
                    /\ IF level > 1
                       THEN level' = level - 1 /\ UNCHANGED pc
                       ELSE pc' = "SetVariables" /\ UNCHANGED level
    /\ UNCHANGED <<files, globalsFilename, sweepVars, graphVars, version, disk>>

\* The rest of ProcessVariables: evaluateAllVariables of the leaf once more,
\* then SetVariables, which calls toResult from the leaf up to the root.
SetVariables ==
    /\ pc = "SetVariables"
    /\ LET callSeq == <<Call("evaluateAllVariables", 1)>>
                      \o [l \in 1 .. Len(parsers) |-> Call("toResult", l)]
       IN \E failAt \in 1 .. Len(callSeq) + 1 :
            /\ log' = log \o UpTo(callSeq, failAt)
            /\ IF failAt = 1
               THEN UNCHANGED parsers
               ELSE \E lv \in LocalOutcomes(parsers, 1), gv \in GlobalOutcomes(parsers, 1) :
                       parsers' = SetVariablesUpTo(evaluateAllVariables(parsers, 1, lv, gv),
                                                   Len(UpTo(callSeq, failAt)) - 1
                                                   - (IF Outcome(callSeq, failAt) = "failed"
                                                      THEN 1 ELSE 0))
            /\ IF Outcome(callSeq, failAt) = "failed"
               THEN ret' = ReturnErr("Eval") /\ pc' = "returned"
               ELSE pc' = "Finalize" /\ UNCHANGED ret
    /\ UNCHANGED <<files, globalsFilename, sweepVars, graphVars, version, disk, level>>

\* Finalize merging with the parent's result before the parent is finalized.
RECURSIVE FinalizeStepsMergeFirst(_)
FinalizeStepsMergeFirst(l) ==
    <<Call("ProcessDependencies", l), Call("ProcessRemainder", l)>>
    \o (IF l < Len(parsers)
        THEN <<Call("mergeConfigWithIncludedConfig", l)>> \o FinalizeStepsMergeFirst(l + 1)
        ELSE <<>>)

\* The steps of Finalize of parsers[l]: ProcessDependencies, ProcessRemainder,
\* then the parent's Finalize and the merge with its result.
RECURSIVE FinalizeSteps(_)
FinalizeSteps(l) ==
    <<Call("ProcessDependencies", l), Call("ProcessRemainder", l)>>
    \o (IF l < Len(parsers)
        THEN FinalizeSteps(l + 1) \o <<Call("mergeConfigWithIncludedConfig", l)>>
        ELSE <<>>)

\* Finalize of the leaf, and the return of Process.
Finalize ==
    /\ pc = "Finalize"
    /\ LET callSeq == FinalizeSteps(1)
       IN \E failAt \in 1 .. Len(callSeq) + 1 :
            /\ log' = log \o UpTo(callSeq, failAt)
            /\ ret' = IF Outcome(callSeq, failAt) = "failed"
                      THEN ReturnErr("Finalize") ELSE ReturnConfig
            /\ pc' = "returned"
    /\ UNCHANGED <<files, globalsFilename, sweepVars, graphVars, version, disk, parsers, level>>

----------------------------------------------------------------------------
(* Process on a leaf file, under either source of ConfigParser *)

InitParser ==
    /\ files = <<NoFile>>
    /\ globalsFilename = ""
    /\ pc = "ParseConfigFile"
    /\ ret = NoRet
    /\ SweepInit
    /\ GraphInit
    /\ version \in {"config_parser.go", "part_000"}
    /\ disk = EmptyMap
    /\ parsers = <<NewConfigParser(LeafFilename, LeafFilename)>>
    /\ level = 1
    /\ log = <<>>

NextParser ==
    \/ ParseConfigFile
    \/ ProcessIncludes
    \/ ProcessIncludesReturn
    \/ PreprocessVariables
    \/ ProcessEdges
    \/ EvaluateVariables
    \/ SetVariables
    \/ Finalize

SpecParser == InitParser /\ [][NextParser]_vars

----------------------------------------------------------------------------
(* Properties of ConfigParser *)

\* The calls that evaluate bindings.
Evaluations == {"evaluateLocals", "evaluateAllVariables"}

\* C12: validation precedes evaluation.  Before every call that evaluates
\* bindings, the edges of every file decoded so far have been processed and
\* the graph has been validated.
C12_ValidationPrecedesEvaluation ==
    \A i \in 1 .. Len(log) :
        log[i].call \in Evaluations =>
            /\ \E j \in 1 .. i - 1 : log[j].call = "processEdges" /\ log[j].validate
            /\ \A k \in 1 .. i - 1 :
                  log[k].call = "decodeVariables" =>
                      \E j \in k + 1 .. i - 1 :
                          log[j].call = "processEdges" /\ log[j].level = log[k].level

\* C20: include path resolution.  The file name of every parent in the chain
\* is the include path of its child, unchanged when absolute and joined to
\* the directory of the child's file when relative.
C20_IncludePathResolution ==
    \A l \in 1 .. Len(parsers) - 1 :
        LET includedConfig == parsers[l].File.include
        IN includedConfig.kind \in {"rel", "abs"} =>
               parsers[l + 1].Filename =
                   IF includedConfig.kind = "abs"
                   THEN [dir |-> includedConfig.dir, base |-> includedConfig.base]
                   ELSE JoinPath(Dir(parsers[l].Filename), includedConfig)

\* C21: missing include path.  Once a file whose include block has an empty
\* path is parsed, ProcessIncludes fails with IncludedConfigMissingPath, no
\* file beyond it is read, and no call of a later stage is made.
C21_MissingIncludePath ==
    \A l \in 1 .. Len(parsers) :
        (~parsers[l].File.missing /\ parsers[l].File.include.kind = "empty") =>
            /\ pc \in {"ProcessIncludes", "returned"}
            /\ level = l
            /\ log = <<>>
            /\ DOMAIN disk = {parsers[i].Filename : i \in 1 .. l}
            /\ pc = "returned" =>
                  (ret.err = "IncludedConfigMissingPath" /\ ~ret.hasVals)

\* The leaf's parent has an include block with an empty path, and Process
\* has returned.
C21_Witness ==
    /\ pc = "returned"
    /\ Len(parsers) = 3
    /\ parsers[1].File.include.kind \in {"rel", "abs"}
    /\ ~parsers[2].File.missing /\ parsers[2].File.include.kind = "empty"
    /\ ret.err = "IncludedConfigMissingPath"

\* C22: include cycle.  A file that is already on the chain is not read
\* again as its own ancestor, and a Process that met it returns an error.
C22_IncludeCycle ==
    \A i, j \in 1 .. Len(parsers) :
        (i < j /\ parsers[i].Filename = parsers[j].Filename) =>
            /\ parsers[j].File.missing
            /\ pc = "returned" => ret.err # ""

\* ProcessVariables has returned nil: Finalize runs or has run.
ProcessVariablesSucceeded ==
    pc = "Finalize" \/ (pc = "returned" /\ ret.err \in {"", "Finalize"})

\* C25: shared global namespace in the output.  After ProcessVariables
\* succeeds, every file of the chain has Context.Locals and Context.Globals
\* set, the global record is the same for all files (the shared global map),
\* and the local record of a file holds that file's own locals only.
C25_SharedGlobalNamespace ==
    ProcessVariablesSucceeded =>
        \A l \in 1 .. Len(parsers) :
            LET Context == parsers[l].Context
            IN /\ Context.Locals.set /\ Context.Globals.set
               /\ Context.Globals = parsers[1].Context.Globals
               /\ Context.Globals.val = GlobalValues(parsers, 1)
               /\ Context.Locals.val = parsers[l].Eval.localValues
               /\ \A n \in DOMAIN Context.Locals.val : Context.Locals.val[n] = K(l, n)

\* A chain of three files whose variables are set: the global record holds a
\* value, the leaf has a local and its parent has none.
C25_Witness ==
    /\ pc = "Finalize" /\ Len(parsers) = 3
    /\ DOMAIN parsers[3].Context.Globals.val = {"a"}
    /\ DOMAIN parsers[1].Context.Locals.val = {"x"}
    /\ DOMAIN parsers[2].Context.Locals.val = {}
    /\ DOMAIN parsers[3].Context.Locals.val = {"x"}
    /\ parsers[1].Context.Locals.val # parsers[3].Context.Locals.val

\* The calls of the stage ProcessVariables and of the stage Finalize.
VariableCalls ==
    {"decodeVariables", "evaluateLocals", "processEdges", "evaluateAllVariables", "toResult"}
FinalizeCalls == {"ProcessDependencies", "ProcessRemainder", "mergeConfigWithIncludedConfig"}

\* The call has been made before the i-th call of the log.
Before(i, name, l) == \E j \in 1 .. i - 1 : log[j].call = name /\ log[j].level = l

\* ProcessIncludes has succeeded: every file of the chain is parsed, each
\* but the last includes the next, and the last includes nothing.
ChainResolved ==
    \A l \in 1 .. Len(parsers) :
        /\ ~parsers[l].File.missing
        /\ parsers[l].Filename \in DOMAIN disk
        /\ IF l < Len(parsers) THEN parsers[l].File.include.kind \in {"rel", "abs"}
           ELSE parsers[l].File.include.kind = "none"

\* The stage each error comes from.
StageOf(err) ==
    CASE err \in {"ReadFile", "IncludedConfigMissingPath"} -> "includes"
      [] err = "Eval" -> "variables"
      [] err = "Finalize" -> "finalize"
      [] OTHER -> "none"

\* C31: pipeline order.  Process parses the file, resolves the includes of
\* the whole chain, processes the variables of the whole chain and then
\* finalizes; a stage runs only when the stages before it succeeded; a failure
\* returns the error and no config; the dependencies and the remainder of a
\* file are decoded only after SetVariables has set its Locals and Globals;
\* and a parent is finalized before its result is merged with its child's.
C31_PipelineOrder ==
    /\ pc \in {"ParseConfigFile", "ProcessIncludes", "SetPaths"} => log = <<>>
    /\ log # <<>> => ChainResolved
    /\ \A i \in 1 .. Len(log) :
          /\ log[i].call \in VariableCalls \cup FinalizeCalls
          /\ log[i].call \in VariableCalls =>
                \A j \in 1 .. i - 1 : log[j].call \in VariableCalls
          /\ log[i].call \in FinalizeCalls =>
                /\ \A l \in 1 .. Len(parsers) : Before(i, "toResult", l)
                /\ parsers[log[i].level].Context.Locals.set
                /\ parsers[log[i].level].Context.Globals.set
          /\ log[i].call = "ProcessRemainder" => Before(i, "ProcessDependencies", log[i].level)
          /\ (log[i].call = "ProcessDependencies" /\ log[i].level > 1) =>
                Before(i, "ProcessRemainder", log[i].level - 1)
          /\ log[i].call = "mergeConfigWithIncludedConfig" =>
                /\ log[i].level < Len(parsers)
                /\ Before(i, "ProcessRemainder", log[i].level)
                /\ Before(i, "ProcessRemainder", log[i].level + 1)
                /\ log[i].level + 1 < Len(parsers) =>
                      Before(i, "mergeConfigWithIncludedConfig", log[i].level + 1)
    /\ pc = "returned" =>
          /\ ret.hasVals <=> ret.err = ""
          /\ StageOf(ret.err) = "includes" => log = <<>>
          /\ StageOf(ret.err) = "variables" =>
                (log # <<>> /\ \A i \in 1 .. Len(log) : log[i].call \in VariableCalls)
          /\ StageOf(ret.err) = "finalize" => log[Len(log)].call \in FinalizeCalls
          /\ ret.hasVals =>
                /\ \A l \in 1 .. Len(parsers) : Before(Len(log) + 1, "ProcessRemainder", l)
                /\ \A l \in 1 .. Len(parsers) - 1 :
                      Before(Len(log) + 1, "mergeConfigWithIncludedConfig", l)

\* Process has returned the config of a chain of three files: the two merges
\* are the last two calls, the parent's before the leaf's.
C31_Witness ==
    /\ pc = "returned" /\ ret.hasVals /\ Len(parsers) = 3
    /\ log[Len(log)] = Call("mergeConfigWithIncludedConfig", 1)
    /\ log[Len(log) - 1] = Call("mergeConfigWithIncludedConfig", 2)

\* ProcessIncludes of the leaf has returned nil (the later source, which has
\* SetPaths and the Child pointer).
IncludesSucceeded ==
    /\ version = "part_000"
    /\ \/ pc \in {"PreprocessVariables", "processEdges", "EvaluateVariables",
                  "SetVariables", "Finalize"}
       \/ pc = "returned" /\ StageOf(ret.err) # "includes"

\* The filenames of parsers[from], parsers[from + step], ..., count of them.
FilenamesFrom(from, step, count) ==
    [i \in 1 .. count |-> parsers[from + step * (i - 1)].Filename]

\* parsers[l] and its neighbours point at each other: one parent, one child.
LinkedBothWays(l) ==
    LET cp == parsers[l]
    IN /\ cp.Parent = (IF l < Len(parsers) THEN l + 1 ELSE 0)
       /\ cp.Child = (IF l > 1 THEN l - 1 ELSE 0)
       /\ cp.Parent # 0 => parsers[cp.Parent].Child = l
       /\ cp.Child # 0 => parsers[cp.Child].Parent = l

\* The path values of parsers[l], which has k ancestors in a chain of n files.
PathValuesOf(l) ==
    LET n == Len(parsers)
        k == n - l
        path == parsers[l].Path
    IN /\ path.level = k
       /\ path.parents = FilenamesFrom(n, -1, k)
       /\ path.children = FilenamesFrom(l - 1, -1, n - 1 - k)
       /\ path.root = parsers[n].Filename
       /\ path.file = parsers[l].Filename
       /\ path.parent = (IF k > 0 THEN parsers[l + 1].Filename ELSE NoFilename)
       /\ path.child = (IF l > 1 THEN parsers[l - 1].Filename ELSE NoFilename)

\* C32: after ProcessIncludes has succeeded on the leaf of a chain of n
\* files, every file has at most one parent and at most one child, with
\* Parent.Child pointing back to it, and the file with k ancestors has level
\* k, parents = its k ancestors from the root to its immediate parent,
\* children = its n-1-k descendants from its immediate child to the leaf, and
\* root = the filename of the file with no parent.
C32_PathValues ==
    IncludesSucceeded =>
        \A l \in 1 .. Len(parsers) : LinkedBothWays(l) /\ PathValuesOf(l)

\* A chain of three files has been resolved: the middle file has one ancestor
\* and one descendant, the leaf has two ancestors, the root two descendants.
C32_Witness ==
    /\ IncludesSucceeded
    /\ Len(parsers) = 3
    /\ parsers[1].Path.level = 2
    /\ Len(parsers[1].Path.parents) = 2
    /\ parsers[1].Path.parents[1] # parsers[1].Path.parents[2]
    /\ Len(parsers[3].Path.children) = 2
    /\ parsers[3].Path.children[1] # parsers[3].Path.children[2]
    /\ parsers[2].Path.level = 1

====
